---- MODULE Spec2Model ----
(***************************************************************************)
(* OctaSine: the audio state (octasine/src/audio/mod.rs) and the sample    *)
(* block generator (octasine/src/audio/gen/mod.rs) as a state machine.     *)
(*                                                                         *)
(* Amplitudes are exact rationals: a per-voice mix is an integer, an       *)
(* output sample is counted in units of 1/MASTER_VOLUME_FACTOR_DEN.        *)
(***************************************************************************)
EXTENDS Integers, Sequences, FiniteSets, TLC

VARIABLES
    pending_note_events, \* AudioState.pending_note_events, read from head to tail
    rb_head,             \* storage index of the ring buffer's head
    voices,              \* AudioState.voices, in insertion order (gen: polyphonic_voices)
    monophonic_voice,    \* the separate slot read by gen/mod.rs
    clap_ended_notes,    \* AudioState.clap_ended_notes, read from head to tail
    pressed_keys,        \* AudioState.pressed_keys, in insertion order
    sustain_pedal_on,    \* AudioState.sustain_pedal_on
    global_pitch_bend,   \* AudioState.global_pitch_bend.factor, in units of 2^-26
    bpm,                 \* AudioState.bpm
    voice_mode,          \* parameters.voice_mode.get_value()
    portamento_mode,     \* parameters.portamento_mode.get_value()
    avx,                 \* is_x86_feature_detected!("avx")
    pc,                  \* position of the audio thread
    frame_offset,        \* process_f32_runtime_select: frame_offset
    num_samples,         \* process_f32_runtime_select: lefts.len()
    position,            \* process_f32_runtime_select: position
    calls,               \* the calls made by the running process_f32_runtime_select, in order
    samples,             \* Pd::SAMPLES of the running pass
    sample_index,        \* extract_voice_data: sample_index
    interpolator_samples, \* advance_one_sample calls made by the running pass
    voice_datas,         \* audio_gen_data.voices[..num_valid_voice_datas]
    out,                 \* the (left, right) samples written by the last process_f32 call
    last_call,           \* the Voice method called by the last applied event
    last_step,           \* the branch taken by the last step, "-" when it has one only
    queue_in_order,      \* whether the queue met the host's ordering contract at call start
    applied,             \* delta_frames of the events applied so far by the running call
    gate_closed,         \* per voice key: frames advanced in a row with the gate closed
    ended_keys,          \* keys of the voices the last frame of the call removed after such frames
    dependency,          \* one VoiceData of gen_audio, its analysis and its voice_mix_out
    operator_value,      \* one interpolated operator value: current, target, step data
    set_value_calls,     \* set_value calls made on operator_value so far
    patch_bank,          \* one PatchBank: patches, patch_index and the change flags
    bank_call,           \* the last PatchBank method called, its arguments and its result
    bank_calls,          \* PatchBank methods called so far
    exported_bytes,      \* the bytes of the last export_fxb_bytes call
    exported_bank,       \* the bank as it was at that call
    conversion,          \* one patch value on its way through new_from_patch and to_patch
    setting,             \* per setter thread: the set_parameter_from_gui / _from_host call it is in
    draining,            \* the get_changed_parameters_from_audio call the audio thread is in
    audio_seen,          \* per parameter: the value the audio thread got last
    poll_due,            \* the GUI's polling calls not made since the last patch change
    knob,                \* one Knob: its value and its KnobState
    knob_message,        \* the event the knob handled last and the message it returned
    knob_editing,        \* whether the knob's last Begin has had no End yet
    now,                 \* Instant::now(), in ticks
    host_queue,          \* the events to the host that the CLAP GUI handle has pushed
    panned_operator,     \* one operator sample on its way through the panning of gen_voice_operator_audio
    voice_gen            \* gen_audio inside its loop over the operators of one voice

vars == <<pending_note_events, rb_head, voices, monophonic_voice,
          clap_ended_notes, pressed_keys,
          sustain_pedal_on, global_pitch_bend, bpm, voice_mode, portamento_mode,
          avx, pc, frame_offset,
          num_samples, position, calls, samples, sample_index, interpolator_samples,
          voice_datas, out,
          last_call, last_step, queue_in_order, applied, gate_closed, ended_keys,
          dependency, operator_value, set_value_calls, patch_bank, bank_call,
          bank_calls, exported_bytes, exported_bank, setting, draining,
          audio_seen, poll_due, knob, knob_message, knob_editing, now, host_queue,
          conversion, panned_operator,
          voice_gen>>

-----------------------------------------------------------------------------
(* Bounds of the model *)

\* Capacity of the pending-event ring. The program allocates 1024 slots
\* (audio/mod.rs:68); the ring's logic does not depend on the number.
RbCapacity == 3
\* Largest delta_frames of an enqueued event
MaxDelta == 2
\* Largest buffer length N of one process_f32_runtime_select call
MaxFrames == 2
\* Largest frame_offset of one process_f32_runtime_select call
MaxFrameOffset == 1
\* Envelope segment lengths in samples (patch parameters of every operator)
AttackSamples == 1
DecaySamples == 1
ReleaseSamples == 1
\* Largest magnitude of one operator's contribution to a voice's mix
MaxOperatorMix == 8
\* Significant bits of a floating-point number. An f64 keeps 53
MantissaBits == 8
\* Bits below 1.0 of the smallest floating-point step. An f64 has 1074
FractionBits == 22
\* set_value calls on one interpolated value in a run
MaxSetValueCalls == 2
\* Parameters of a patch. The program has one per entry of PARAMETERS, at
\* most MAX_NUM_PARAMETERS
NumParameters == 2
\* ticks of the clock the knob reads
MaxTicks == 3
\* frames of the longest buffer of a call that is followed chunk by chunk
MaxBufferFrames == 3
\* capacity of the ring of ended CLAP notes, 256 in the program
ClapEndedCapacity == 1
\* PatchBank methods called in a run
MaxBankCalls == 3

(* Program constants *)
NUM_OPERATORS == 4
\* OperatorStepData::default: num_steps
NUM_STEPS == 32
MASTER_VOLUME_FACTOR_NUM == 1
MASTER_VOLUME_FACTOR_DEN == 5
LIMIT == 10
MONO_VOICE_INDEX == 128
VOICE_DATA_CAPACITY == 129

None == 0 - 1

\* the f32 of 1.0 / 8_191.0, in units of 2^-26
F32_RECIP_8191 == 8193

\* the largest MIDI data byte
MIDI_DATA_MAX == 127

\* PatchBank::patches: [Patch; 128]
NUM_PATCHES == 128

\* BeatsPerMinute::default
BeatsPerMinuteDefault == 120

\* last_call when the last step called no Voice method
NoCall == [fn |-> "none"]
Operators == 0 .. (NUM_OPERATORS - 1)

-----------------------------------------------------------------------------
(* Sequences as the insertion-ordered containers of the program *)

\* the entries of s that are in the set keep, in order
SelectSeqBy(s, keep) == SelectSeq(s, LAMBDA x : x \in keep)

Range(s) == {s[i] : i \in 1 .. Len(s)}

\* IndexSet::shift_remove
SetShiftRemove(s, key) == SelectSeqBy(s, Range(s) \ {key})

\* IndexSet::insert: appended unless present
SetInsert(s, key) == IF key \in Range(s) THEN s ELSE Append(s, key)

VoiceKeys(vs) == {vs[i].key : i \in 1 .. Len(vs)}

\* IndexMap::get
MapGet(vs, key) == LET i == CHOOSE i \in 1 .. Len(vs) : vs[i].key = key IN vs[i]

\* IndexMap::shift_remove: the entries after the removed one move up
MapShiftRemove(vs, key) == SelectSeqBy(vs, {v \in Range(vs) : v.key # key})

\* IndexMap::entry(key).or_insert(voice): an existing entry wins, a new one goes last
MapOrInsert(vs, key, voice) ==
    IF key \in VoiceKeys(vs) THEN vs ELSE Append(vs, [voice EXCEPT !.key = key])

\* write through the &mut Voice of key: its entry becomes voice, in place
MapSet(vs, key, voice) ==
    [i \in 1 .. Len(vs) |-> IF vs[i].key = key THEN voice ELSE vs[i]]

-----------------------------------------------------------------------------
(* Volume envelope and voice (audio/voices) *)

\* start_volume is the volume an Attack rises from: 0 for silence, 1 for the
\* positive volume of an envelope restarted while it was sounding
EnvelopeNew == [stage |-> "Ended", elapsed |-> 0, start_volume |-> 0]

EnvelopeStage(stage) == [stage |-> stage, elapsed |-> 0, start_volume |-> 0]

\* VoiceOperatorVolumeEnvelope::restart, called by press_key: Attack from the
\* current volume
EnvelopeRestart(e) ==
    [stage |-> "Attack", elapsed |-> 0,
     start_volume |-> IF e.stage = "Ended" THEN 0 ELSE 1]

\* VoiceOperatorVolumeEnvelope::advance_one_sample, gate = key held or pedal on
EnvelopeAdvance(e, gate) ==
    CASE e.stage = "Attack" ->
            IF e.elapsed + 1 >= AttackSamples
            THEN EnvelopeStage("Decay")
            ELSE [e EXCEPT !.elapsed = @ + 1]
      [] e.stage = "Decay" ->
            IF e.elapsed + 1 >= DecaySamples
            THEN EnvelopeStage("Sustain")
            ELSE [e EXCEPT !.elapsed = @ + 1]
      [] e.stage = "Sustain" ->
            IF gate THEN e ELSE EnvelopeStage("Release")
      [] e.stage = "Release" ->
            IF e.elapsed + 1 >= ReleaseSamples
            THEN EnvelopeStage("Ended")
            ELSE [e EXCEPT !.elapsed = @ + 1]
      [] OTHER -> e

\* VoiceOperatorVolumeEnvelope::is_ended
is_ended(e) == e.stage = "Ended"

\* Voice::new
VoiceNew(key) ==
    [key |-> key, key_pressed |-> FALSE, active |-> FALSE, clap_note_id |-> None,
     operators |-> [o \in Operators |-> EnvelopeNew]]

\* Voice::press_key: the gate opens and every envelope re-enters Attack
press_key(voice) ==
    [voice EXCEPT !.key_pressed = TRUE, !.active = TRUE,
                  !.operators = [o \in Operators |-> EnvelopeRestart(@[o])]]

\* Voice::release_key
release_key(voice) == [voice EXCEPT !.key_pressed = FALSE]

\* Voice::deactivate_if_envelopes_ended
deactivate_if_envelopes_ended(voice) ==
    IF \A o \in Operators : is_ended(voice.operators[o])
    THEN [voice EXCEPT !.active = FALSE]
    ELSE voice

-----------------------------------------------------------------------------
(* Voice allocation: AudioState::key_on and AudioState::key_off.           *)
(* a is the audio state: [voices, pressed_keys, sustain_pedal_on,          *)
(* voice_mode, portamento_mode, last_call].                                *)

RECURSIVE RevFindVoice(_, _)
\* voices.iter().rev().filter(ok).map(key).next()
RevFindVoice(vs, ok) ==
    IF vs = <<>> THEN None
    ELSE IF vs[Len(vs)] \in ok THEN vs[Len(vs)].key
    ELSE RevFindVoice(SubSeq(vs, 1, Len(vs) - 1), ok)

RECURSIVE RevFindKey(_, _)
\* pressed_keys.iter().rev().filter(ok).next()
RevFindKey(ks, ok) ==
    IF ks = <<>> THEN None
    ELSE IF ks[Len(ks)] \in ok THEN ks[Len(ks)]
    ELSE RevFindKey(SubSeq(ks, 1, Len(ks) - 1), ok)

\* an update that inserts without removing first, keeping a held key's place
key_on_pressed_keys_insert_only(ks, key) == SetInsert(ks, key)

\* key_on: pressed_keys.shift_remove(&key); pressed_keys.insert(key)
key_on_pressed_keys(ks, key) == SetInsert(SetShiftRemove(ks, key), key)

\* key_off: pressed_keys.shift_remove(&key)
key_off_pressed_keys(ks, key) == SetShiftRemove(ks, key)

\* a glide source that takes released voices in Auto mode too
poly_glide_from_any_key(vs, key, mode) ==
    IF mode = "Off" THEN None
    ELSE RevFindVoice(vs, {v \in Range(vs) : v.key # key})

\* key_on, Polyphonic: opt_glide_from_key
poly_glide_from_key(vs, key, mode) ==
    CASE mode = "Off" -> None
      [] mode = "Auto" ->
            RevFindVoice(vs, {v \in Range(vs) : v.key # key /\ v.key_pressed})
      [] mode = "Always" ->
            RevFindVoice(vs, {v \in Range(vs) : v.key # key})

\* a placement that drops the voice of key and starts a new one
poly_place_new_voice(vs, key) ==
    MapOrInsert(MapShiftRemove(vs, key), key, VoiceNew(key))

\* a placement that leaves an existing voice where it is
poly_place_in_place(vs, key) ==
    IF key \in VoiceKeys(vs) THEN vs ELSE MapOrInsert(vs, key, VoiceNew(key))

\* key_on, Polyphonic: the voice of key moves to, or is created at, the last position
poly_place_voice(vs, key) ==
    IF key \in VoiceKeys(vs)
    THEN MapOrInsert(MapShiftRemove(vs, key), key, MapGet(vs, key))
    ELSE MapOrInsert(vs, key, VoiceNew(key))

\* position of the voice of key in the table, 0 when it has none
VoiceIndex(vs, key) ==
    IF key \in VoiceKeys(vs)
    THEN CHOOSE i \in 1 .. Len(vs) : vs[i].key = key
    ELSE 0

\* the arguments of Voice::press_key chosen from the glide source; found_at
\* records where shift_remove found the voice of key
press_key_call(key, opt_glide_from_key, found_at) ==
    IF opt_glide_from_key # None
    THEN [fn |-> "press_key", key |-> key, initial_key |-> opt_glide_from_key,
          target_key |-> key, found_at |-> found_at]
    ELSE [fn |-> "press_key", key |-> key, initial_key |-> key,
          target_key |-> None, found_at |-> found_at]

key_on_polyphonic(a, key) ==
    LET from == poly_glide_from_key(a.voices, key, a.portamento_mode)
        placed == poly_place_voice(a.voices, key)
    IN  [a EXCEPT !.voices = MapSet(placed, key, press_key(MapGet(placed, key))),
                  !.last_call = press_key_call(key, from, VoiceIndex(a.voices, key))]

\* key_on, Monophonic: opt_replace_key
mono_replace_key(vs, ks, key, mode) ==
    LET pressed == RevFindKey(ks, Range(ks) \ {key})
    IN  IF mode = "Always" /\ pressed = None
        THEN RevFindVoice(vs, {v \in Range(vs) : v.key # key})
        ELSE pressed

\* key_on, Monophonic: opt_glide_from_key
mono_glide_from_key(vs, ks, key, mode) ==
    IF mode = "Off" THEN None ELSE mono_replace_key(vs, ks, key, mode)

\* key_on, Monophonic: the voice of key, else the voice of the replaced key, else a new one
mono_place_voice(vs, key, opt_replace_key) ==
    IF key \in VoiceKeys(vs)
    THEN MapOrInsert(MapShiftRemove(vs, key), key, MapGet(vs, key))
    ELSE IF opt_replace_key # None /\ opt_replace_key \in VoiceKeys(vs)
    THEN MapOrInsert(MapShiftRemove(vs, opt_replace_key), key,
                     MapGet(vs, opt_replace_key))
    ELSE MapOrInsert(vs, key, VoiceNew(key))

\* a key_on that releases no other voice
mono_release_none(vs, key) == vs

\* key_on, Monophonic: every other key-pressed voice is released
mono_release_others(vs, key) ==
    [i \in 1 .. Len(vs) |->
        IF vs[i].key_pressed /\ vs[i].key # key THEN release_key(vs[i]) ELSE vs[i]]

key_on_monophonic(a, key) ==
    LET replace == mono_replace_key(a.voices, a.pressed_keys, key, a.portamento_mode)
        from == mono_glide_from_key(a.voices, a.pressed_keys, key, a.portamento_mode)
        placed == mono_place_voice(a.voices, key, replace)
        pressed == MapSet(placed, key, press_key(MapGet(placed, key)))
    IN  [a EXCEPT !.voices = mono_release_others(pressed, key),
                  !.last_call = press_key_call(key, from, VoiceIndex(a.voices, key))]

\* AudioState::key_on; velocity and opt_clap_note_id go to press_key as they are
key_on(a, key, velocity, opt_clap_note_id) ==
    LET b == [a EXCEPT !.pressed_keys = key_on_pressed_keys(@, key)]
        c == IF b.voice_mode = "Polyphonic"
             THEN key_on_polyphonic(b, key)
             ELSE key_on_monophonic(b, key)
    IN  [c EXCEPT !.voices =
            MapSet(@, key, [MapGet(@, key) EXCEPT !.clap_note_id = opt_clap_note_id]),
                  !.last_call =
            [fn |-> @.fn, key |-> @.key, initial_key |-> @.initial_key,
             target_key |-> @.target_key, found_at |-> @.found_at,
             velocity |-> velocity, clap_note_id |-> opt_clap_note_id]]

\* the aftertouch of the commented-out body: the voice of key is called
aftertouch_calls_voice(a, key, velocity) ==
    IF key \in VoiceKeys(a.voices)
    THEN [a EXCEPT !.last_call = [fn |-> "aftertouch", key |-> key,
                                  velocity |-> velocity]]
    ELSE a

\* AudioState::aftertouch: disabled, an empty body; last_call notes that the
\* handler ran and called no Voice method
aftertouch(a, key, velocity) ==
    [a EXCEPT !.last_call = [fn |-> "none", handler |-> "aftertouch",
                             key |-> key, velocity |-> velocity]]

\* AudioState::set_bpm
set_bpm(a, new_bpm) == [a EXCEPT !.bpm = new_bpm]

RECURSIVE BitOr(_, _)
\* the | of two unsigned integers
BitOr(x, y) ==
    IF x = 0 THEN y
    ELSE IF y = 0 THEN x
    ELSE (IF x % 2 = 1 \/ y % 2 = 1 THEN 1 ELSE 0) + 2 * BitOr(x \div 2, y \div 2)

RECURSIVE F32Quantum(_)
\* the spacing of f32 values around n: an f32 keeps 24 significant bits
F32Quantum(n) == IF n < 2^24 THEN 1 ELSE 2 * F32Quantum(n \div 2)

\* the f32 nearest to n >= 0, ties to even
F32Round(n) ==
    LET q == F32Quantum(n)
        low == n - (n % q)
        rest == n % q
    IN  IF 2 * rest > q \/ (2 * rest = q /\ (low \div q) % 2 = 1)
        THEN low + q
        ELSE low

\* f32 factors count in units of 2^-26: 1.0 is 2^26, the f32 of 1.0 / 8_192.0
\* is 2^13 and the f32 of 1.0 / 8_191.0 is F32_RECIP_8191
F32_ONE == 2^26
F32_RECIP_8192 == 2^13

\* an update that divides both halves by 8192
update_from_midi_one_divisor(lsb, msb) ==
    (BitOr((msb * 2^7) % 2^16, lsb) - 8192) * F32_RECIP_8192

\* GlobalPitchBend::update_from_midi: the new factor
update_from_midi(lsb, msb) ==
    LET amount == BitOr((msb * 2^7) % 2^16, lsb)
        x == amount - 8192
    IN  IF x > 0 THEN F32Round(x * F32_RECIP_8191)
        ELSE IF x < 0 THEN 0 - F32Round((0 - x) * F32_RECIP_8192)
        ELSE 0

key_off_polyphonic(a, key) ==
    IF key \in VoiceKeys(a.voices)
    THEN [a EXCEPT !.voices = MapSet(@, key, release_key(MapGet(a.voices, key))),
                   !.last_call = [fn |-> "release_key", key |-> key]]
    ELSE a

key_off_monophonic(a, key) ==
    LET go_to_key == RevFindKey(a.pressed_keys, Range(a.pressed_keys))
        glide == a.portamento_mode # "Off"
    IN  IF go_to_key # None
        THEN IF key \in VoiceKeys(a.voices)
             THEN [a EXCEPT
                     !.voices = MapOrInsert(MapShiftRemove(@, key), go_to_key,
                                            MapGet(a.voices, key)),
                     !.last_call = [fn |-> "change_pitch", key |-> go_to_key,
                                    glide |-> glide]]
             ELSE a
        ELSE key_off_polyphonic(a, key)

\* AudioState::key_off
key_off(a, key) ==
    LET b == [a EXCEPT !.pressed_keys = key_off_pressed_keys(@, key)]
    IN  IF b.voice_mode = "Polyphonic"
        THEN key_off_polyphonic(b, key)
        ELSE key_off_monophonic(b, key)

-----------------------------------------------------------------------------
(* Note events (common::NoteEvent, NoteEventInner) *)

MidiEvent(status, data1, data2) == [type |-> "Midi", data |-> <<status, data1, data2>>]
MidiNoteOn(key) == MidiEvent(144, key, 100)
MidiNoteOff(key) == MidiEvent(128, key, 0)
MidiSustain(value) == MidiEvent(176, 64, value)

ClapNoteOn(key, velocity, clap_note_id) ==
    [type |-> "ClapNoteOn", key |-> key, velocity |-> velocity,
     clap_note_id |-> clap_note_id]
ClapNotePressure(key, pressure) ==
    [type |-> "ClapNotePressure", key |-> key, pressure |-> pressure]
ClapNoteOff(key) == [type |-> "ClapNoteOff", key |-> key]
ClapBpm(new_bpm) == [type |-> "ClapBpm", bpm |-> new_bpm]

\* KeyVelocity::from_midi_velocity: velocity / 127, as <<numerator, denominator>>
from_midi_velocity(velocity) == <<velocity, 127>>

NoteEvent(delta, event) == [delta_frames |-> delta, event |-> event]

\* a decoder that compares the whole status byte, so that only channel 0 works
process_note_event_channel_zero(a, event) ==
    IF event.type = "Midi"
    THEN LET status == event.data[1]
             data1 == event.data[2]
             data2 == event.data[3]
         IN  CASE status = 128 -> key_off(a, data1)
               [] status = 144 /\ data2 = 0 -> key_off(a, data1)
               [] status = 144 /\ data2 # 0 ->
                      key_on(a, data1, from_midi_velocity(data2), None)
               [] status = 176 /\ data1 = 64 ->
                      [a EXCEPT !.sustain_pedal_on = (data2 >= 64)]
               [] status = 224 ->
                      [a EXCEPT !.global_pitch_bend = update_from_midi(data1, data2)]
               [] OTHER -> a
    ELSE a

\* AudioState::process_note_event
process_note_event(a, event) ==
    IF event.type = "Midi"
    THEN LET status == event.data[1] \div 16   \* data[0] >>= 4
             data1 == event.data[2]
             data2 == event.data[3]
         IN  CASE status = 8 -> key_off(a, data1)
               [] status = 9 /\ data2 = 0 -> key_off(a, data1)
               [] status = 9 /\ data2 # 0 ->
                      key_on(a, data1, from_midi_velocity(data2), None)
               [] status = 10 -> aftertouch(a, data1, from_midi_velocity(data2))
               [] status = 11 /\ data1 = 64 ->
                      [a EXCEPT !.sustain_pedal_on = (data2 >= 64)]
               [] status = 14 ->
                      [a EXCEPT !.global_pitch_bend = update_from_midi(data1, data2)]
               [] OTHER -> a
    ELSE CASE event.type = "ClapNoteOn" ->
                 key_on(a, event.key, event.velocity, event.clap_note_id)
           [] event.type = "ClapNotePressure" ->
                 aftertouch(a, event.key, event.pressure)
           [] event.type = "ClapNoteOff" -> key_off(a, event.key)
           [] event.type = "ClapBpm" -> set_bpm(a, event.bpm)

-----------------------------------------------------------------------------
(* The pending-event ring (ringbuf::LocalRb) *)

\* a push that makes room by dropping the oldest event
rb_push_overwrite(queue, event) ==
    IF Len(queue) >= RbCapacity THEN Append(Tail(queue), event) ELSE Append(queue, event)

\* Rb::push: refused when the ring is full
rb_push(queue, event) ==
    IF Len(queue) >= RbCapacity THEN queue ELSE Append(queue, event)

RECURSIVE rb_push_iter(_, _)
\* Rb::push_iter: takes events while there is room
rb_push_iter(queue, events) ==
    IF events = <<>> \/ Len(queue) >= RbCapacity THEN queue
    ELSE rb_push_iter(Append(queue, Head(events)), Tail(events))

IsSortedByDelta(s) ==
    \A i \in 1 .. Len(s) - 1 : s[i].delta_frames <= s[i + 1].delta_frames

\* the rearrangements of s
Rearrangements(s) ==
    LET n == Len(s)
        bijections == {f \in [1 .. n -> 1 .. n] : \A i, j \in 1 .. n : f[i] = f[j] => i = j}
    IN  {[i \in 1 .. n |-> s[f[i]]] : f \in bijections}

\* slice::sort_unstable_by_key(|e| e.delta_frames): equal keys in any order
sort_unstable_by_key(s) == {t \in Rearrangements(s) : IsSortedByDelta(t)}

\* Rb::as_mut_slices: the occupied slots up to the end of the storage, then the
\* occupied slots from its start
first_slice_len(queue, head) ==
    IF Len(queue) <= RbCapacity - head THEN Len(queue) ELSE RbCapacity - head

\* AudioState::sort_note_events: the queues it may leave
sort_note_events(queue, head) ==
    LET n == first_slice_len(queue, head)
    IN  {a \o b : a \in sort_unstable_by_key(SubSeq(queue, 1, n)),
                  b \in sort_unstable_by_key(SubSeq(queue, n + 1, Len(queue)))}

-----------------------------------------------------------------------------
(* Sample generation (audio/gen/mod.rs) *)

Min(x, y) == IF x <= y THEN x ELSE y
Max(x, y) == IF x >= y THEN x ELSE y

\* the audio state that the event handlers read and write
AudioState ==
    [voices |-> voices, pressed_keys |-> pressed_keys,
     sustain_pedal_on |-> sustain_pedal_on,
     global_pitch_bend |-> global_pitch_bend, bpm |-> bpm,
     voice_mode |-> voice_mode,
     portamento_mode |-> portamento_mode, last_call |-> NoCall]

\* process_f32: the early-out test
is_idle ==
    /\ pending_note_events = <<>>
    /\ voices = <<>>
    /\ ~monophonic_voice.active

\* an early-out that clears the left channel only, the right keeps a stale 1
silence_left_only(width) == [l \in 1 .. width |-> <<0, 1>>]

\* process_f32: the early-out writes 0.0 to every left and right sample
silence(width) == [l \in 1 .. width |-> <<0, 0>>]

\* a loop that stops one frame short of the buffer
pass_samples_one_short ==
    IF num_samples - position >= 2 THEN 1 ELSE 0

\* process_f32_runtime_select: frames of the next pass, 0 when none remain
pass_samples ==
    LET num_remaining_samples == num_samples - position
    IN  IF num_remaining_samples >= 2 /\ avx THEN 2
        ELSE IF num_remaining_samples >= 1 THEN 1
        ELSE 0

\* process_f32_runtime_select: updater(audio_state), first in every iteration
updater_call(trace) == Append(trace, [call |-> "updater"])

\* process_f32_runtime_select: S::process_f32 on the chunk of samples frames
\* that starts at position
process_f32_call(trace, chunk, chunk_samples) ==
    Append(trace, [call |-> "process_f32", position |-> chunk,
                   samples |-> chunk_samples])

\* a chunk that is given its position in the buffer
chunk_position_in_buffer(offset, buffer_position) == buffer_position

\* process_f32_runtime_select: the position argument of process_f32
chunk_position(offset, buffer_position) == offset + buffer_position

\* a test that also takes a head event stamped with an earlier frame
head_is_due_or_overdue(queue, buffer_offset) ==
    /\ queue # <<>>
    /\ Head(queue).delta_frames <= buffer_offset

\* process_events_for_sample: the head event is due at buffer_offset
head_is_due(queue, buffer_offset) ==
    /\ queue # <<>>
    /\ Head(queue).delta_frames = buffer_offset

\* an advance that is left to the end of the frame
advance_no_sample(interpolated_samples) == interpolated_samples

\* AudioState::advance_one_sample, called first in every frame of
\* extract_voice_data: every parameter interpolator makes one step
advance_one_sample(interpolated_samples) == interpolated_samples + 1

\* extract_voice_data: polyphonic voices, then the monophonic voice when active
voice_iterator ==
    voices \o (IF monophonic_voice.active
               THEN <<[monophonic_voice EXCEPT !.key = MONO_VOICE_INDEX]>>
               ELSE <<>>)

\* an advance whose gate is the key alone
advance_voice_key_gate(voice, pedal) ==
    [voice EXCEPT !.operators =
        [o \in Operators |-> EnvelopeAdvance(@[o], voice.key_pressed)]]

\* extract_voice_data: the envelopes of one voice advance by one sample
advance_voice(voice, pedal) ==
    [voice EXCEPT !.operators =
        [o \in Operators |-> EnvelopeAdvance(@[o], voice.key_pressed \/ pedal)]]

\* an entry of audio_gen_data.voices as an earlier pass can have left it: the
\* index of some other voice and a positive envelope volume in every lane
StaleVoiceData(width) ==
    [voice_index |-> MONO_VOICE_INDEX,
     envelope_volume |-> [o \in Operators |-> [l \in 1 .. width |-> 1]]]

\* a reset that leaves the envelope volumes as they are
keep_envelope_volumes(voice_data) == voice_data

\* VoiceData::reset_envelope_volumes
reset_envelope_volumes(voice_data) ==
    [voice_data EXCEPT !.envelope_volume =
        [o \in Operators |-> [l \in DOMAIN @[o] |-> 0]]]

\* extract_voice_data: the next entry of the cache is taken for voice_index and
\* its envelope volumes are reset
VoiceDataNew(voice_index, width) ==
    reset_envelope_volumes([StaleVoiceData(width) EXCEPT !.voice_index = voice_index])

\* extract_voice_data: the cache entry of a voice in frame s is a new one in the
\* first frame, else the one carrying its voice_index, else a new one
voice_data_slot(vds, voice_index, s) ==
    LET found == {i \in 1 .. Len(vds) : vds[i].voice_index = voice_index}
    IN  IF s # 0 /\ found # {}
        THEN CHOOSE i \in found : \A j \in found : i <= j
        ELSE Len(vds) + 1

\* extract_voice_operator_data: frame s of every operator whose envelope has not
\* ended is written; 1 stands for a positive envelope volume
fill_voice_data(vds, voice, s, width) ==
    LET i == voice_data_slot(vds, voice.key, s)
        base == IF i = Len(vds) + 1 THEN VoiceDataNew(voice.key, width) ELSE vds[i]
        filled == [base EXCEPT !.envelope_volume =
                     [o \in Operators |->
                        IF is_ended(voice.operators[o]) THEN @[o]
                        ELSE [@[o] EXCEPT ![s + 1] = 1]]]
    IN  IF i = Len(vds) + 1 THEN Append(vds, filled) ELSE [vds EXCEPT ![i] = filled]

RECURSIVE extract_sounding_voice_datas(_, _, _, _)
\* a loop that deactivates a voice whose envelopes have all ended before it is
\* given an entry
extract_sounding_voice_datas(vds, vs, s, width) ==
    LET sounding == SelectSeq(vs, LAMBDA v : \E o \in Operators : ~is_ended(v.operators[o]))
    IN  IF s = 0
        THEN vds \o [i \in 1 .. Len(sounding) |->
                        fill_voice_data(<<>>, sounding[i], s, width)[1]]
        ELSE IF sounding = <<>> THEN vds
        ELSE extract_sounding_voice_datas(
                 fill_voice_data(vds, Head(sounding), s, width), Tail(sounding), s, width)

RECURSIVE extract_voice_datas(_, _, _, _)
\* extract_voice_data: the loop over voice_iterator, vs already advanced; in the
\* first frame every voice takes the next entry
extract_voice_datas(vds, vs, s, width) ==
    IF s = 0
    THEN vds \o [i \in 1 .. Len(vs) |-> fill_voice_data(<<>>, vs[i], s, width)[1]]
    ELSE IF vs = <<>> THEN vds
    ELSE extract_voice_datas(fill_voice_data(vds, Head(vs), s, width), Tail(vs), s, width)

\* audio::ClapNoteEnded
ClapNoteEnded(key, clap_note_id, frame) ==
    [key |-> key, clap_note_id |-> clap_note_id, sample_index |-> frame]

\* extract_voice_data: ended_clap_notes, one (voice.is_monophonic, note_ended)
\* for every voice of the iterator that the frame deactivates and that has a
\* note id, in the order of the iterator; vs are the advanced voices, the
\* monophonic voice last when it is active
ended_clap_notes(vs, mono_voice, frame) ==
    LET note(i) ==
            LET voice_was_monophonic == mono_voice.active /\ i = Len(vs)
            IN  [voice_was_monophonic |-> voice_was_monophonic,
                 deactivated |-> ~deactivate_if_envelopes_ended(vs[i]).active,
                 event |-> ClapNoteEnded(
                              IF voice_was_monophonic THEN mono_voice.key ELSE vs[i].key,
                              vs[i].clap_note_id, frame)]
    IN  SelectSeq([i \in 1 .. Len(vs) |-> note(i)],
                  LAMBDA n : n.deactivated /\ n.event.clap_note_id # None)

\* a test that lets every ended note through
should_push_always(poly_voices, mono_voice, voice_was_monophonic, key, clap_note_id) ==
    TRUE

\* extract_voice_data::should_push: not when the voice of the other voice mode
\* is active with the same key and the same note id
should_push(poly_voices, mono_voice, voice_was_monophonic, key, clap_note_id) ==
    IF voice_was_monophonic
    THEN ~(/\ key \in VoiceKeys(poly_voices)
           /\ MapGet(poly_voices, key).active
           /\ MapGet(poly_voices, key).clap_note_id = clap_note_id)
    ELSE ~(/\ mono_voice.active
           /\ mono_voice.key = key
           /\ mono_voice.clap_note_id = clap_note_id)

\* clap_ended_notes.push: refused when the ring is full
ended_rb_push(ring, event) ==
    IF Len(ring) >= ClapEndedCapacity THEN ring ELSE Append(ring, event)

RECURSIVE push_ended_notes(_, _, _, _)
\* extract_voice_data: the loop over ended_clap_notes.drain(..), after the loop
\* over the voices and before the retain
push_ended_notes(ring, ended, poly_voices, mono_voice) ==
    IF ended = <<>> THEN ring
    ELSE LET n == Head(ended)
             pushed == IF should_push(poly_voices, mono_voice, n.voice_was_monophonic,
                                      n.event.key, n.event.clap_note_id)
                       THEN ended_rb_push(ring, n.event)
                       ELSE ring
         IN  push_ended_notes(pushed, Tail(ended), poly_voices, mono_voice)

\* a retain that keeps every voice
retain_all(vs) == vs

\* audio_gen_data_field.voices[num_valid_voice_datas]: the entries needed by a
\* frame do not fit the array
cache_index_out_of_bounds(vds) == Len(vds) > VOICE_DATA_CAPACITY

\* polyphonic_voices.retain(|_, voice| voice.active)
retain_active(vs) == SelectSeqBy(vs, {v \in Range(vs) : v.active})

\* a clip that forgets the lower limit
clip_upper_only(x) == Min(x, LIMIT * MASTER_VOLUME_FACTOR_DEN)

\* .min(Pd::new(LIMIT)).max(Pd::new(-LIMIT)), in output units
hard_clip(x) ==
    Max(Min(x, LIMIT * MASTER_VOLUME_FACTOR_DEN), 0 - LIMIT * MASTER_VOLUME_FACTOR_DEN)

RECURSIVE SumSeq(_)
\* the sum of a sequence of numbers
SumSeq(s) ==
    IF s = <<>> THEN 0
    ELSE IF Len(s) = 1 THEN s[1]
    ELSE LET half == Len(s) \div 2
         IN  SumSeq(SubSeq(s, 1, half)) + SumSeq(SubSeq(s, half + 1, Len(s)))

\* gen_audio: one voice's mix in lane l, every operator at wave value wave
voice_mix_out(voice_data, l, wave) ==
    SumSeq([n \in 1 .. NUM_OPERATORS |->
              wave * MaxOperatorMix * voice_data.envelope_volume[n - 1][l]])

\* gen_audio: total_mix_out of lane l
total_mix_out(vds, l, wave) ==
    SumSeq([i \in 1 .. Len(vds) |-> voice_mix_out(vds[i], l, wave)])

\* gen_audio: scale by MASTER_VOLUME_FACTOR, clip, write left and right
gen_audio(vds, width, wave_left, wave_right) ==
    [l \in 1 .. width |->
        <<hard_clip(total_mix_out(vds, l, wave_left) * MASTER_VOLUME_FACTOR_NUM),
          hard_clip(total_mix_out(vds, l, wave_right) * MASTER_VOLUME_FACTOR_NUM)>>]

\* the gate of a voice was open in the last frame, or no frame has run yet
GateOpen == [frames |-> 0, after_decay |-> FALSE]

\* the count of closed-gate frames stops one above the release duration
MaxClosedFrames == ReleaseSamples + 1

\* extract_voice_data: a frame advances the envelopes of voice k with the gate
\* key_pressed | sustain_pedal_on; the frames in a row with the gate closed are
\* counted, and whether attack and decay had elapsed when it closed
gate_closed_after_frame(vs, pedal, closed) ==
    [k \in VoiceKeys(vs) |->
        LET voice == MapGet(vs, k)
            old == IF k \in DOMAIN closed THEN closed[k] ELSE GateOpen
        IN  IF voice.key_pressed \/ pedal THEN GateOpen
            ELSE IF old.frames = 0
            THEN [frames |-> 1,
                  after_decay |-> \A o \in Operators :
                                     voice.operators[o].stage \notin {"Attack", "Decay"}]
            ELSE [old EXCEPT !.frames = Min(@ + 1, MaxClosedFrames)]]

\* process_note_event: the count of a voice whose key is pressed, or that is new
\* to the table, starts again
gate_closed_after_event(vs, closed) ==
    [k \in VoiceKeys(vs) |->
        IF k \in DOMAIN closed /\ ~MapGet(vs, k).key_pressed
        THEN closed[k] ELSE GateOpen]

-----------------------------------------------------------------------------
(* Floating point with MantissaBits significant bits; a number is an integer *)
(* count of units of 2^-FractionBits, rounded to nearest, ties to even.      *)

\* n / d rounded to the nearest integer, ties to even, d > 0
RoundHalfEven(n, d) ==
    LET q == n \div d
        r == n % d
    IN  IF 2 * r > d \/ (2 * r = d /\ q % 2 = 1) THEN q + 1 ELSE q

RECURSIVE FloatQuantum(_)
\* the spacing of the floating-point numbers around n >= 0
FloatQuantum(n) == IF n < 2^MantissaBits THEN 1 ELSE 2 * FloatQuantum(n \div 2)

\* the floating-point number nearest to n
FloatRound(n) ==
    LET q == FloatQuantum(IF n < 0 THEN 0 - n ELSE n)
    IN  q * RoundHalfEven(n, q)

FloatOne == 2^FractionBits

\* x + y, x - y and x / d (d a whole number) in floating point
FloatAdd(x, y) == FloatRound(x + y)
FloatSub(x, y) == FloatRound(x - y)
FloatDiv(x, d) == FloatRound(RoundHalfEven(x, d))

-----------------------------------------------------------------------------
(* create_operator_value!: an interpolated operator value *)

\* Default for $struct_name
OperatorValueDefault(default_value) ==
    [current_value |-> default_value, target_value |-> default_value,
     step_size |-> 0, steps_remaining |-> 0, last_time |-> 0,
     num_steps |-> NUM_STEPS]

\* InterpolatableValue::get_value: the value after the call and what it returns
get_value(self, time) ==
    IF self.num_steps = 0 THEN [self |-> self, result |-> self.current_value]
    ELSE IF time # self.last_time /\ self.steps_remaining > 0
    THEN LET stepped == [self EXCEPT
                            !.current_value = FloatAdd(@, self.step_size),
                            !.steps_remaining = @ - 1,
                            !.last_time = time]
         IN  [self |-> stepped, result |-> stepped.current_value]
    ELSE [self |-> self, result |-> self.current_value]

\* InterpolatableValue::set_value
set_value(self, value) ==
    IF self.num_steps = 0
    THEN [self EXCEPT !.target_value = value, !.current_value = value]
    ELSE IF value = self.current_value
    THEN [self EXCEPT !.target_value = value, !.steps_remaining = 0]
    ELSE LET diff == FloatSub(value, self.current_value)
         IN  [self EXCEPT !.target_value = value,
                          !.step_size = FloatDiv(diff, self.num_steps),
                          !.steps_remaining = self.num_steps]

-----------------------------------------------------------------------------
(* gen_audio: operator dependency analysis and the mix of one voice.        *)
(* An operator is [volume, mix_out, mod_out, modulation_targets]; the two   *)
(* lanes of a frame carry the same value (set_value_for_both_channels).     *)

\* SimdPackedDouble::any_over_zero
any_over_zero(x) == x > 0

\* the first loop, were the volume left out
generate_if_routed(operators) ==
    [i \in Operators |->
        \/ any_over_zero(operators[i].mod_out)
        \/ any_over_zero(operators[i].mix_out)]

\* run_operator_dependency_analysis: the first loop
generate_if_audible(operators) ==
    [i \in Operators |->
        /\ any_over_zero(operators[i].volume)
        /\ \/ any_over_zero(operators[i].mod_out)
           \/ any_over_zero(operators[i].mix_out)]

RECURSIVE prune_modulators(_, _, _)
\* run_operator_dependency_analysis: the second loop, from operator_index on
prune_modulators(operators, operator_generate_audio, operator_index) ==
    IF operator_index >= NUM_OPERATORS THEN operator_generate_audio
    ELSE LET all_targets_inactive ==
                 \A mod_target \in operators[operator_index].modulation_targets :
                     ~operator_generate_audio[mod_target]
             mix_out_active == any_over_zero(operators[operator_index].mix_out)
         IN  prune_modulators(operators,
                 IF all_targets_inactive /\ ~mix_out_active
                 THEN [operator_generate_audio EXCEPT ![operator_index] = FALSE]
                 ELSE operator_generate_audio,
                 operator_index + 1)

\* an analysis that prunes on the targets alone
dependency_analysis_targets_only(operators) ==
    [i \in Operators |->
        /\ generate_if_audible(operators)[i]
        /\ i = 0 \/ \E t \in operators[i].modulation_targets :
                        generate_if_audible(operators)[t]]

\* run_operator_dependency_analysis
run_operator_dependency_analysis(operators) ==
    prune_modulators(operators, generate_if_audible(operators), 1)

\* gen_voice_operator_audio: (mix_out, mod_out) of one operator; the wave is
\* 1 + modulation_inputs, never zero and different for different inputs
gen_voice_operator_audio(operator, modulation_inputs) ==
    LET sample == (1 + modulation_inputs) * operator.volume
    IN  [mix_out |-> sample * operator.mix_out, mod_out |-> sample * operator.mod_out]

RECURSIVE gen_operators(_, _, _, _, _)
\* gen_audio: the loop from operator_index down to operator 0
gen_operators(operators, operator_generate_audio, operator_index, voice_modulation_inputs, mix) ==
    IF operator_index < 0 THEN mix
    ELSE IF ~operator_generate_audio[operator_index]
    THEN gen_operators(operators, operator_generate_audio, operator_index - 1,
                       voice_modulation_inputs, mix)
    ELSE LET o == gen_voice_operator_audio(operators[operator_index],
                                           voice_modulation_inputs[operator_index])
         IN  gen_operators(operators, operator_generate_audio, operator_index - 1,
                 [t \in Operators |->
                     voice_modulation_inputs[t]
                       + IF t \in operators[operator_index].modulation_targets
                         THEN o.mod_out ELSE 0],
                 mix + o.mix_out)

\* gen_audio: voice_mix_out of one voice with the given operators generated
voice_mix_of(operators, operator_generate_audio) ==
    gen_operators(operators, operator_generate_audio, NUM_OPERATORS - 1,
                  [t \in Operators |-> 0], 0)

\* gen_audio, were mod_out added to every operator's modulation inputs
add_to_all(operators, operator_index, voice_modulation_inputs, mod_out) ==
    [t \in Operators |-> voice_modulation_inputs[t] + mod_out]

\* gen_audio: mod_out added to the modulation inputs of the targets of the
\* operator
add_to_targets(operators, operator_index, voice_modulation_inputs, mod_out) ==
    [t \in Operators |->
        voice_modulation_inputs[t]
          + IF t \in operators[operator_index].modulation_targets THEN mod_out ELSE 0]

\* no voice data has gone through gen_audio
NoDependency == [analysed |-> FALSE]

\* gen_audio is not inside the loop over the operators of a voice
NoVoiceGen ==
    [operator_index |-> NUM_OPERATORS,
     operators |-> <<>>,
     operator_generate_audio |-> <<>>,
     voice_modulation_inputs |-> <<>>,
     voice_mix_out |-> 0,
     evaluated |-> <<>>,
     inputs_read |-> <<>>,
     mod_outs |-> <<>>]

-----------------------------------------------------------------------------
(* Parameter values (parameters/glide_mode.rs) and their text. A text is a  *)
(* sequence of one-character strings.                                       *)

Nothing == [some |-> FALSE]
Some(v) == [some |-> TRUE, value |-> v]

UpperCase == <<"A", "B", "C", "D", "E", "F", "G", "H", "I", "J", "K", "L", "M", "N", "O", "P", "Q", "R", "S", "T", "U", "V", "W", "X", "Y", "Z">>
LowerCase == <<"a", "b", "c", "d", "e", "f", "g", "h", "i", "j", "k", "l", "m", "n", "o", "p", "q", "r", "s", "t", "u", "v", "w", "x", "y", "z">>

\* str::to_lowercase
to_lowercase(text) ==
    [i \in 1 .. Len(text) |->
        IF \E k \in 1 .. Len(UpperCase) : UpperCase[k] = text[i]
        THEN LowerCase[CHOOSE k \in 1 .. Len(UpperCase) : UpperCase[k] = text[i]]
        ELSE text[i]]

\* str::trim, for the white space " "
trim(text) ==
    LET inked == {i \in 1 .. Len(text) : text[i] # " "}
    IN  IF inked = {} THEN <<>>
        ELSE SubSeq(text, CHOOSE i \in inked : \A j \in inked : i <= j,
                          CHOOSE i \in inked : \A j \in inked : i >= j)

PORTAMENTO_MODE_STEPS == <<"Off", "Auto", "On">>

\* utils::map_patch_value_to_step: the step whose bucket holds the patch value
map_patch_value_to_step(steps, value) ==
    steps[Min(Max((value * Len(steps)) \div FloatOne, 0), Len(steps) - 1) + 1]

\* utils::map_step_to_patch_value: the centre of the step's bucket
map_step_to_patch_value(steps, step) ==
    LET index == (CHOOSE i \in 1 .. Len(steps) : steps[i] = step) - 1
    IN  FloatRound(RoundHalfEven((2 * index + 1) * FloatOne, 2 * Len(steps)))

\* GlideModeValue::new_from_text
GlideModeValue_new_from_text(text) ==
    LET t == to_lowercase(trim(text))
    IN  IF t = <<"o", "f", "f">> THEN Some("Off")
        ELSE IF t = <<"a", "u", "t", "o">> THEN Some("Auto")
        ELSE IF t = <<"a", "l", "w", "a", "y", "s">> THEN Some("On")
        ELSE Nothing

\* GlideModeValue::get_formatted: the mode as Display for GlideMode writes it
GlideModeValue_get_formatted(mode) ==
    CASE mode = "Off" -> <<"O", "F", "F">>
      [] mode = "Auto" -> <<"A", "U", "T", "O">>
      [] mode = "On" -> <<"O", "N">>

\* GlideModeValue::new_from_patch
GlideModeValue_new_from_patch(value) ==
    map_patch_value_to_step(PORTAMENTO_MODE_STEPS, value)

\* GlideModeValue::to_patch
GlideModeValue_to_patch(mode) ==
    map_step_to_patch_value(PORTAMENTO_MODE_STEPS, mode)

\* GlideMode::default
GlideModeDefault == "Off"

\* 1.0 of an operator frequency: 1 / 1024, the smallest of OPERATOR_FREE_STEPS,
\* is then the smallest number with MantissaBits significant bits
FrequencyOne == 2^(MantissaBits + 9)

OPERATOR_FREE_STEPS ==
    <<FrequencyOne \div 1024, FrequencyOne \div 64, FrequencyOne \div 16,
      FrequencyOne \div 4, FrequencyOne \div 2, (3 * FrequencyOne) \div 4,
      FrequencyOne, (3 * FrequencyOne) \div 2, 2 * FrequencyOne, 4 * FrequencyOne,
      16 * FrequencyOne, 64 * FrequencyOne, 1024 * FrequencyOne>>

RECURSIVE Pow2Part(_)
\* the largest power of two that divides n > 0
Pow2Part(n) == IF n % 2 = 1 THEN 1 ELSE 2 * Pow2Part(n \div 2)

\* the floating-point number nearest to n / d, n >= 0, d > 0
FloatRoundRatio(n, d) ==
    LET q == FloatQuantum(n \div d)
    IN  q * RoundHalfEven(n, d * q)

\* utils::map_parameter_value_to_value_with_steps: linear interpolation
\* between the two steps around the patch value, rounded once
map_parameter_value_to_value_with_steps(steps, value) ==
    LET max == Len(steps) - 1
        clamped == Min(Max(value, 0), FloatOne)
        index == (clamped * max) \div FloatOne
        fract == (clamped * max) % FloatOne
    IN  IF index = max THEN steps[Len(steps)]
        ELSE LET low == steps[index + 1]
                 diff == steps[index + 2] - low
                 c == Min(Pow2Part(diff), FloatOne)
             IN  FloatRoundRatio(low * (FloatOne \div c) + fract * (diff \div c),
                                 FloatOne \div c)

\* the same without the interpolation: the step below the patch value
map_parameter_value_to_step_below(steps, value) ==
    steps[(Min(Max(value, 0), FloatOne) * (Len(steps) - 1)) \div FloatOne + 1]

\* utils::map_value_to_parameter_value_with_steps: the inverse, rounded once
map_value_to_parameter_value_with_steps(steps, value) ==
    LET max == Len(steps) - 1
    IN  IF value <= steps[1] THEN 0
        ELSE IF value >= steps[Len(steps)] THEN FloatOne
        ELSE LET index == (CHOOSE i \in 1 .. max : steps[i] < value /\ value <= steps[i + 1]) - 1
                 low == steps[index + 1]
                 diff == steps[index + 2] - low
                 g == Min(Pow2Part(value - low), Pow2Part(diff))
                 n == (value - low) \div g + index * (diff \div g)
                 d == max * (diff \div g)
                 c == Min(Pow2Part(d), FloatOne)
             IN  FloatRoundRatio(n * (FloatOne \div c), d \div c)

\* new_from_patch, were the value the step below instead of the interpolation
OperatorFrequencyFreeValue_new_from_patch_stepped(value) ==
    map_parameter_value_to_step_below(OPERATOR_FREE_STEPS, value)

\* OperatorFrequencyFreeValue::new_from_patch
OperatorFrequencyFreeValue_new_from_patch(value) ==
    map_parameter_value_to_value_with_steps(OPERATOR_FREE_STEPS, value)

\* OperatorFrequencyFreeValue::to_patch
OperatorFrequencyFreeValue_to_patch(value) ==
    map_value_to_parameter_value_with_steps(OPERATOR_FREE_STEPS, value)

\* ParameterValue::new_from_patch of a kind of parameter
new_from_patch(kind, value) ==
    IF kind = "GlideMode" THEN GlideModeValue_new_from_patch(value)
    ELSE OperatorFrequencyFreeValue_new_from_patch(value)

\* ParameterValue::to_patch of a kind of parameter
to_patch(kind, value) ==
    IF kind = "GlideMode" THEN GlideModeValue_to_patch(value)
    ELSE OperatorFrequencyFreeValue_to_patch(value)

\* no patch value is being converted
NoConversion == [stage |-> "-", kind |-> "-", patch |-> 0, value |-> 0, back |-> 0, again |-> 0]

-----------------------------------------------------------------------------
(* Packed doubles (simd.rs): a Pd is the sequence of its lanes, two for the *)
(* fallback and four for AVX, each a floating-point number in units of      *)
(* 2^-FractionBits.                                                         *)

\* x * y in floating point
FloatMul(x, y) ==
    LET ax == IF x < 0 THEN 0 - x ELSE x
        ay == IF y < 0 THEN 0 - y ELSE y
        sign == IF (x < 0) = (y < 0) THEN 1 ELSE 0 - 1
        qx == FloatQuantum(ax)
        qy == FloatQuantum(ay)
        scale == FloatOne \div qx
        product == (ax \div qx) * (ay \div qy)
    IN  sign * (IF qy >= scale THEN FloatRound(product * (qy \div scale))
                ELSE FloatRoundRatio(product, scale \div qy))

\* SimdPackedDouble::new
Pd_new(width, value) == [lane \in 1 .. width |-> value]

\* SimdPackedDouble::new_zeroed
Pd_new_zeroed(width) == [lane \in 1 .. width |-> 0]

\* SimdPackedDouble::new_from_pair
Pd_new_from_pair(width, l, r) == [lane \in 1 .. width |-> IF lane % 2 = 1 THEN l ELSE r]

\* SimdPackedDouble::min
Pd_min(a, b) == [lane \in 1 .. Len(a) |-> Min(a[lane], b[lane])]

\* SimdPackedDouble::max
Pd_max(a, b) == [lane \in 1 .. Len(a) |-> Max(a[lane], b[lane])]

\* SimdPackedDouble::pairwise_horizontal_sum
pairwise_horizontal_sum(a) ==
    [lane \in 1 .. Len(a) |->
        FloatAdd(a[lane], a[IF lane % 2 = 1 THEN lane + 1 ELSE lane - 1])]

\* interleave, were the lanes taken the other way round
interleave_swapped(a, b) == [lane \in 1 .. Len(a) |-> IF lane % 2 = 1 THEN b[lane] ELSE a[lane]]

\* SimdPackedDouble::interleave
interleave(a, b) == [lane \in 1 .. Len(a) |-> IF lane % 2 = 1 THEN a[lane] ELSE b[lane]]

\* Add, Sub and Mul of packed doubles
Pd_add(a, b) == [lane \in 1 .. Len(a) |-> FloatAdd(a[lane], b[lane])]
Pd_sub(a, b) == [lane \in 1 .. Len(a) |-> FloatSub(a[lane], b[lane])]
Pd_mul(a, b) == [lane \in 1 .. Len(a) |-> FloatMul(a[lane], b[lane])]

\* linear_panning_factor
linear_panning_factor(panning) ==
    LET width == Len(panning)
    IN  Pd_min(Pd_mul(interleave(Pd_sub(Pd_new(width, FloatOne), panning), panning),
                      Pd_new(width, 2 * FloatOne)),
               Pd_new(width, FloatOne))

\* mono_mix_factor, were the pair (1.0, -1.0)
mono_mix_factor_swapped(panning) ==
    LET width == Len(panning)
        pan == Pd_mul(Pd_new(width, 2 * FloatOne),
                      Pd_sub(panning, Pd_new(width, FloatOne \div 2)))
    IN  Pd_max(Pd_mul(pan, Pd_new_from_pair(width, FloatOne, 0 - FloatOne)),
               Pd_new_zeroed(width))

\* mono_mix_factor
mono_mix_factor(panning) ==
    LET width == Len(panning)
        pan == Pd_mul(Pd_new(width, 2 * FloatOne),
                      Pd_sub(panning, Pd_new(width, FloatOne \div 2)))
    IN  Pd_max(Pd_mul(pan, Pd_new_from_pair(width, 0 - FloatOne, FloatOne)),
               Pd_new_zeroed(width))

\* gen_voice_operator_audio: the sample with its channels mixed by the panning
mix_channels(panning, sample) ==
    LET width == Len(panning)
        factor == mono_mix_factor(panning)
        mono == Pd_mul(pairwise_horizontal_sum(sample), Pd_new(width, FloatOne \div 2))
    IN  Pd_add(Pd_mul(factor, mono),
               Pd_mul(Pd_sub(Pd_new(width, FloatOne), factor), sample))

\* no operator sample is being panned
NoPannedOperator ==
    [stage |-> "-", width |-> 0, panning |-> <<>>, sample |-> <<>>,
     mono_mix_factor |-> <<>>, mixed |-> <<>>, pan_factor |-> <<>>]

-----------------------------------------------------------------------------
(* The patch bank (sync/patch_bank.rs, sync/parameters.rs). A bank is       *)
(* [patches, patch_index, parameter_change_info_audio,                      *)
(* parameter_change_info_gui, patches_changed, envelope_viewports_changed]; *)
(* a change info is the set of the parameter indices marked as changed.     *)
(* Every parameter of the model is a glide mode.                            *)

ParameterIndices == 0 .. NumParameters - 1
PatchIndices == 0 .. NUM_PATCHES - 1

\* PatchParameter::new
PatchParameterNew == GlideModeValue_to_patch(GlideModeDefault)

\* PatchParameter::value_from_text
value_from_text(text) ==
    LET v == GlideModeValue_new_from_text(text)
    IN  IF v.some THEN Some(GlideModeValue_to_patch(v.value)) ELSE Nothing

\* Patch::default
PatchDefault == [i \in ParameterIndices |-> PatchParameterNew]

\* PatchBank::new
PatchBankNew ==
    [patches |-> [p \in PatchIndices |-> PatchDefault],
     patch_index |-> 0,
     parameter_change_info_audio |-> {},
     parameter_change_info_gui |-> {},
     patches_changed |-> FALSE,
     envelope_viewports_changed |-> FALSE]

\* PatchBank::get_parameter_by_index: whether the current patch has the index
get_parameter_by_index(self, index) == index \in DOMAIN self.patches[self.patch_index]

\* PatchParameter::set_value on a parameter of the current patch
parameter_set_value(self, index, value) ==
    [self EXCEPT !.patches[self.patch_index][index] = value]

\* PatchBank::mark_parameters_as_changed
mark_parameters_as_changed(self) ==
    [self EXCEPT !.parameter_change_info_audio = ParameterIndices,
                 !.parameter_change_info_gui = ParameterIndices]

\* PatchBank::get_patch_index
get_patch_index(self) == self.patch_index

\* set_patch_index, were an index equal to the number of patches let through
set_patch_index_inclusive(self, index) ==
    IF index > NUM_PATCHES THEN self
    ELSE [mark_parameters_as_changed(self) EXCEPT
             !.patch_index = index,
             !.patches_changed = TRUE,
             !.envelope_viewports_changed = TRUE]

\* PatchBank::set_patch_index
set_patch_index(self, index) ==
    IF index >= NUM_PATCHES THEN self
    ELSE [mark_parameters_as_changed(self) EXCEPT
             !.patch_index = index,
             !.patches_changed = TRUE,
             !.envelope_viewports_changed = TRUE]

\* PatchBank::have_patches_changed
have_patches_changed(self) ==
    [self |-> [self EXCEPT !.patches_changed = FALSE],
     result |-> self.patches_changed]

\* PatchBank::set_patch_name; the model's patches carry no name
set_patch_name(self) == [self EXCEPT !.patches_changed = TRUE]

\* PatchBank::clear_current_patch
clear_current_patch(self) ==
    [mark_parameters_as_changed([self EXCEPT !.patches[self.patch_index] = PatchDefault])
        EXCEPT !.patches_changed = TRUE,
               !.envelope_viewports_changed = TRUE]

\* PatchBank::clear_bank
clear_bank(self) ==
    [mark_parameters_as_changed(
         set_patch_index([self EXCEPT !.patches = [p \in PatchIndices |-> PatchDefault]], 0))
        EXCEPT !.patches_changed = TRUE,
               !.envelope_viewports_changed = TRUE]

\* the envelope viewports of the current patch, which the model's patches do
\* not carry
EnvelopeViewports == <<>>

\* PatchBank::get_viewports_if_changed
get_viewports_if_changed(self) ==
    IF self.patches_changed
    THEN [self |-> [self EXCEPT !.patches_changed = FALSE],
          result |-> Some(EnvelopeViewports)]
    ELSE [self |-> self, result |-> Nothing]

\* PatchBank::get_parameter_value
get_parameter_value(self, index) ==
    IF get_parameter_by_index(self, index)
    THEN Some(self.patches[self.patch_index][index])
    ELSE Nothing

\* f32::min(1.0).max(0.0)
clamp_to_unit(value) == Max(Min(value, FloatOne), 0)

\* PatchBank::set_parameter_from_gui
set_parameter_from_gui(self, index, value) ==
    IF get_parameter_by_index(self, index)
    THEN [parameter_set_value(self, index, clamp_to_unit(value)) EXCEPT
             !.parameter_change_info_audio = @ \cup {index}]
    ELSE self

\* PatchBank::set_parameter_from_host
set_parameter_from_host(self, index, value) ==
    IF get_parameter_by_index(self, index)
    THEN [parameter_set_value(self, index, value) EXCEPT
             !.parameter_change_info_audio = @ \cup {index},
             !.parameter_change_info_gui = @ \cup {index}]
    ELSE self

\* 1.0 as a knob value: knob values are in units of 0.0001
KnobOne == 10000
\* the value a double click sets: 0.5
ResetValue == KnobOne \div 2
\* the speed of a drag per pixel, 0.005, and with the modifier key, 0.0005
DragSpeed == 50
DragSpeedModifier == 5
\* a second click is a double click nearer than 5.0 pixels and sooner than
\* 300 ms; a tick of the model's clock is 200 ms
DoubleClickDistance == 5
DoubleClickMillis == 300
TickMillis == 200

\* KnobState::default with Knob::new
KnobNew(reset_value, value) ==
    [reset_value |-> reset_value, value |-> value,
     last_cursor_position |-> [y |-> 0, over_knob |-> TRUE],
     modifier_key_pressed |-> FALSE,
     previous_click |-> Nothing,
     is_dragging |-> FALSE]

\* the update call returned no message
NoMessage == [event |-> "-", type |-> "None"]

\* CursorMoved, were the new value not clamped
unclamped(value) == value

\* f32::clamp(0.0, 1.0)
clamp(value) == IF value < 0 THEN 0 ELSE IF value > KnobOne THEN KnobOne ELSE value

\* Point::distance of two cursor positions, which the model keeps on a
\* vertical line
distance(a, b) == IF a.y >= b.y THEN a.y - b.y ELSE b.y - a.y

\* the double click test of ButtonPressed
is_double_click(state, time) ==
    /\ state.previous_click.some
    /\ distance(state.previous_click.value.point, state.last_cursor_position)
         < DoubleClickDistance
    /\ (time - state.previous_click.value.time) * TickMillis < DoubleClickMillis

\* Program::update for Knob: the knob after the event and the message
update(self, event, time) ==
    CASE event.type = "CursorMoved" ->
           IF self.is_dragging
           THEN LET speed == IF self.modifier_key_pressed THEN DragSpeedModifier
                             ELSE DragSpeed
                    diff == self.last_cursor_position.y - event.position.y
                    new_value == clamp(self.value + diff * speed)
                IN  [self |-> [self EXCEPT !.last_cursor_position = event.position],
                     message |-> [event |-> event.type, type |-> "SetValue",
                                  value |-> new_value]]
           ELSE [self |-> [self EXCEPT !.last_cursor_position = event.position],
                 message |-> [event |-> event.type, type |-> "None"]]
      [] event.type = "ButtonPressed" ->
           IF ~self.is_dragging /\ is_double_click(self, time)
           THEN [self |-> [self EXCEPT !.is_dragging = FALSE, !.previous_click = Nothing],
                 message |-> [event |-> event.type, type |-> "Immediate",
                              value |-> self.reset_value]]
           ELSE IF ~self.is_dragging /\ self.last_cursor_position.over_knob
           THEN [self |-> [self EXCEPT
                              !.is_dragging = TRUE,
                              !.previous_click =
                                  Some([point |-> self.last_cursor_position, time |-> time])],
                 message |-> [event |-> event.type, type |-> "Begin"]]
           ELSE [self |-> self, message |-> [event |-> event.type, type |-> "None"]]
      [] event.type = "ButtonReleased" ->
           IF self.is_dragging
           THEN [self |-> [self EXCEPT !.is_dragging = FALSE],
                 message |-> [event |-> event.type, type |-> "End"]]
           ELSE [self |-> self, message |-> [event |-> event.type, type |-> "None"]]
      [] event.type = "Keyboard" ->
           [self |-> [self EXCEPT !.modifier_key_pressed = event.shift],
            message |-> [event |-> event.type, type |-> "None"]]
      [] OTHER -> [self |-> self, message |-> [event |-> event.type, type |-> "None"]]

\* the threads that set parameters
SetterThreads == {"gui", "host"}

\* set_parameter_from_host, were the parameter marked before its value is stored
set_parameter_steps_marking_first(from) ==
    IF from = "gui"
    THEN <<"mark_as_changed_audio", "set_value">>
    ELSE <<"mark_as_changed_audio", "mark_as_changed_gui", "set_value">>

\* PatchBank::set_parameter_from_gui, set_parameter_from_host: the atomic
\* operations of a call on a parameter of the patch, in program order
set_parameter_steps(from) ==
    IF from = "gui"
    THEN <<"set_value", "mark_as_changed_audio">>
    ELSE <<"set_value", "mark_as_changed_audio", "mark_as_changed_gui">>

\* the value set_parameter_from_gui / set_parameter_from_host stores
set_parameter_value(from, value) == IF from = "gui" THEN clamp_to_unit(value) ELSE value

\* ParameterChangeInfo::mark_as_changed: an atomic or
mark_as_changed(info, index) == info \cup {index}

\* one atomic operation of a setter call
set_parameter_step(self, from, step, index, value) ==
    CASE step = "set_value" ->
           parameter_set_value(self, index, set_parameter_value(from, value))
      [] step = "mark_as_changed_audio" ->
           [self EXCEPT !.parameter_change_info_audio = mark_as_changed(@, index)]
      [] step = "mark_as_changed_gui" ->
           [self EXCEPT !.parameter_change_info_gui = mark_as_changed(@, index)]

\* PatchParameter::set_from_text on a parameter of the current patch
set_from_text(self, index, text) ==
    LET v == value_from_text(text)
    IN  IF v.some
        THEN [self |-> parameter_set_value(self, index, v.value), result |-> TRUE]
        ELSE [self |-> self, result |-> FALSE]

\* PatchBank::set_parameter_text_from_host
set_parameter_text_from_host(self, index, text) ==
    IF get_parameter_by_index(self, index) /\ set_from_text(self, index, text).result
    THEN [self |-> [set_from_text(self, index, text).self EXCEPT
                       !.parameter_change_info_audio = @ \cup {index},
                       !.parameter_change_info_gui = @ \cup {index}],
          result |-> TRUE]
    ELSE [self |-> self, result |-> FALSE]

\* set_parameter_text_from_gui, were the audio flag set before the text is parsed
set_parameter_text_from_gui_marking_first(self, index, text) ==
    IF get_parameter_by_index(self, index)
    THEN [self |-> [set_from_text(self, index, text).self EXCEPT
                       !.parameter_change_info_audio = @ \cup {index}],
          result |-> set_from_text(self, index, text).result]
    ELSE [self |-> self, result |-> FALSE]

\* PatchBank::set_parameter_text_from_gui
set_parameter_text_from_gui(self, index, text) ==
    IF get_parameter_by_index(self, index) /\ set_from_text(self, index, text).result
    THEN [self |-> [set_from_text(self, index, text).self EXCEPT
                       !.parameter_change_info_audio = @ \cup {index}],
          result |-> TRUE]
    ELSE [self |-> self, result |-> FALSE]

\* EventToHost
StartAutomating(key) == [type |-> "StartAutomating", key |-> key]
Automate(key, value) == [type |-> "Automate", key |-> key, value |-> value]
EndAutomating(key) == [type |-> "EndAutomating", key |-> key]

\* ClapGuiSyncHandle::send_event
send_event(queue, event) == rb_push(queue, event)

\* ClapGuiSyncHandle::send_events
send_events(queue, events) == rb_push_iter(queue, events)

\* GuiSyncHandle::set_parameter_from_text of the CLAP handle, with a host;
\* the key of a parameter is its index
set_parameter_from_text(self, queue, index, text) ==
    LET set == set_parameter_text_from_gui(self, index, text)
    IN  IF set.result
        THEN LET value == get_parameter_value(set.self, index).value
             IN  [self |-> set.self,
                  queue |-> send_events(queue, <<StartAutomating(index),
                                                 Automate(index, value),
                                                 EndAutomating(index)>>),
                  result |-> Some(value)]
        ELSE [self |-> set.self, queue |-> queue, result |-> Nothing]

\* serde::serialize_bank_fxb_bytes: for each patch in order, the pairs of
\* parameter index and patch value in parameter order
serialize_bank_fxb_bytes(self) ==
    [p \in 1 .. NUM_PATCHES |->
        [i \in 1 .. NumParameters |-> <<i - 1, self.patches[p - 1][i - 1]>>]]

\* serde::update_bank_from_bytes: each patch takes the values of its pairs;
\* bytes that do not hold a bank are an error
update_bank_from_bytes(self, bytes) ==
    IF Len(bytes) # NUM_PATCHES
    THEN [self |-> self, result |-> FALSE]
    ELSE [self |-> [self EXCEPT !.patches =
                       [p \in PatchIndices |->
                           [i \in ParameterIndices |->
                               IF \E k \in 1 .. Len(bytes[p + 1]) : bytes[p + 1][k][1] = i
                               THEN bytes[p + 1][CHOOSE k \in 1 .. Len(bytes[p + 1]) :
                                                    bytes[p + 1][k][1] = i][2]
                               ELSE self.patches[p][i]]]],
          result |-> TRUE]

\* PatchBank::export_fxb_bytes
export_fxb_bytes(self) == serialize_bank_fxb_bytes(self)

\* import_bank_from_bytes, were the patch index left where it is
import_bank_keeping_index(self, bytes) ==
    IF update_bank_from_bytes(self, bytes).result
    THEN [self |-> [mark_parameters_as_changed(update_bank_from_bytes(self, bytes).self)
                       EXCEPT !.patches_changed = TRUE,
                              !.envelope_viewports_changed = TRUE],
          result |-> TRUE]
    ELSE [self |-> self, result |-> FALSE]

\* PatchBank::import_bank_from_bytes
import_bank_from_bytes(self, bytes) ==
    IF update_bank_from_bytes(self, bytes).result
    THEN [self |-> [mark_parameters_as_changed(
                        set_patch_index(update_bank_from_bytes(self, bytes).self, 0))
                       EXCEPT !.patches_changed = TRUE,
                              !.envelope_viewports_changed = TRUE],
          result |-> TRUE]
    ELSE [self |-> self, result |-> FALSE]

\* no PatchBank method has been called
NoBankCall == [method |-> "-"]

-----------------------------------------------------------------------------
(* The state machine *)

Init ==
    /\ pending_note_events = <<>>
    /\ rb_head = 0
    /\ voices = <<>>
    /\ monophonic_voice = VoiceNew(MONO_VOICE_INDEX)
    /\ clap_ended_notes = <<>>
    /\ pressed_keys = <<>>
    /\ sustain_pedal_on = FALSE
    /\ global_pitch_bend = 0
    /\ bpm = BeatsPerMinuteDefault
    /\ voice_mode = "Polyphonic"
    /\ portamento_mode = "Off"
    /\ avx \in BOOLEAN
    /\ pc = "idle"
    /\ frame_offset = 0
    /\ num_samples = 0
    /\ position = 0
    /\ calls = <<>>
    /\ samples = 0
    /\ sample_index = 0
    /\ interpolator_samples = 0
    /\ voice_datas = <<>>
    /\ out = <<>>
    /\ last_call = NoCall
    /\ last_step = "-"
    /\ queue_in_order = TRUE
    /\ applied = <<>>
    /\ gate_closed = [k \in {} |-> GateOpen]
    /\ ended_keys = {}
    /\ dependency = NoDependency
    /\ operator_value = OperatorValueDefault(0)
    /\ set_value_calls = 0
    /\ patch_bank = PatchBankNew
    /\ bank_call = NoBankCall
    /\ bank_calls = 0
    /\ exported_bytes = <<>>
    /\ exported_bank = PatchBankNew
    /\ setting = [t \in SetterThreads |-> Nothing]
    /\ draining = Nothing
    /\ audio_seen = PatchDefault
    /\ poll_due = {}
    /\ knob = KnobNew(ResetValue, ResetValue)
    /\ knob_message = NoMessage
    /\ knob_editing = FALSE
    /\ now = 0
    /\ host_queue = <<>>
    /\ conversion = NoConversion
    /\ panned_operator = NoPannedOperator
    /\ voice_gen = NoVoiceGen

audio_vars == <<voices, monophonic_voice, clap_ended_notes, pressed_keys,
                sustain_pedal_on,
                global_pitch_bend, bpm, last_call>>
param_vars == <<voice_mode, portamento_mode>>
call_vars == <<pc, frame_offset, num_samples, position, calls>>
export_vars == <<exported_bytes, exported_bank>>
knob_vars == <<knob, knob_message, knob_editing, now>>
widget_vars == <<knob_vars, host_queue>>
gui_vars == <<setting, draining, audio_seen, poll_due, widget_vars>>
bank_vars == <<patch_bank, bank_call, bank_calls, export_vars, gui_vars>>
pure_vars == <<conversion, panned_operator, voice_gen>>
value_vars == <<operator_value, set_value_calls, bank_vars, pure_vars>>
ghost_vars == <<queue_in_order, applied, gate_closed, ended_keys, dependency,
                value_vars>>
pass_vars == <<samples, sample_index, interpolator_samples, voice_datas, out>>
thread_vars == <<pending_note_events, rb_head, audio_vars, param_vars, avx,
                 call_vars, pass_vars, last_step, queue_in_order, applied,
                 gate_closed, ended_keys, dependency>>

\* AudioState::enqueue_note_event
EnqueueNoteEvent(event) ==
    /\ pc = "idle"
    /\ pending_note_events' = rb_push(pending_note_events, event)
    /\ last_step' = IF Len(pending_note_events) >= RbCapacity
                    THEN "enqueue_dropped" ELSE "-"
    /\ UNCHANGED <<rb_head, audio_vars, param_vars, avx, call_vars, pass_vars,
                   ghost_vars>>

\* AudioState::enqueue_note_events
EnqueueNoteEvents(events) ==
    /\ pc = "idle"
    /\ pending_note_events' = rb_push_iter(pending_note_events, events)
    /\ last_step' = IF Len(pending_note_events) + Len(events) > RbCapacity
                    THEN "enqueue_dropped" ELSE "-"
    /\ UNCHANGED <<rb_head, audio_vars, param_vars, avx, call_vars, pass_vars,
                   ghost_vars>>

\* AudioState::sort_note_events
SortNoteEvents ==
    /\ pc = "idle"
    /\ pending_note_events' \in sort_note_events(pending_note_events, rb_head)
    /\ last_step' = "sort"
    /\ UNCHANGED <<rb_head, audio_vars, param_vars, avx, call_vars, pass_vars,
                   ghost_vars>>

\* a parameter change that clears the voice table when the voice mode changes
SetParameterAndClearVoices(new_voice_mode, new_portamento_mode) ==
    /\ pc \in {"idle", "loop"}
    /\ voice_mode' = new_voice_mode
    /\ portamento_mode' = new_portamento_mode
    /\ voices' = IF new_voice_mode # voice_mode THEN <<>> ELSE voices
    /\ last_step' = "-"
    /\ UNCHANGED <<pending_note_events, rb_head, monophonic_voice,
                   clap_ended_notes, pressed_keys,
                   sustain_pedal_on, global_pitch_bend, bpm, last_call, avx,
                   call_vars, pass_vars, ghost_vars>>

\* AudioState::set_parameter_from_patch, between calls or from the updater
SetParameterFromPatch(new_voice_mode, new_portamento_mode) ==
    /\ pc \in {"idle", "loop"}
    /\ voice_mode' = new_voice_mode
    /\ portamento_mode' = new_portamento_mode
    /\ last_step' = "-"
    /\ UNCHANGED <<pending_note_events, rb_head, audio_vars, avx, call_vars,
                   pass_vars, ghost_vars>>

\* process_f32_runtime_select is entered
BeginProcess(offset, n) ==
    /\ pc = "idle"
    /\ pc' = "loop"
    /\ frame_offset' = offset
    /\ num_samples' = n
    /\ position' = 0
    /\ calls' = updater_call(<<>>)
    /\ out' = <<>>
    /\ queue_in_order' =
          /\ IsSortedByDelta(pending_note_events)
          /\ \A i \in 1 .. Len(pending_note_events) :
                pending_note_events[i].delta_frames >= offset
    /\ applied' = <<>>
    /\ last_step' = "-"
    /\ ended_keys' = {}
    /\ UNCHANGED <<pending_note_events, rb_head, audio_vars, param_vars, avx,
                   samples, sample_index, interpolator_samples, voice_datas,
                   gate_closed, dependency,
                   value_vars>>

\* process_f32_runtime_select: no frame remains
Return ==
    /\ pc = "loop"
    /\ pass_samples = 0
    /\ pc' = "idle"
    /\ frame_offset' = 0
    /\ num_samples' = 0
    /\ position' = 0
    /\ calls' = <<>>
    /\ out' = <<>>
    /\ queue_in_order' = TRUE
    /\ applied' = <<>>
    /\ last_step' = "-"
    /\ ended_keys' = {}
    /\ UNCHANGED <<pending_note_events, rb_head, audio_vars, param_vars, avx,
                   samples, sample_index, interpolator_samples, voice_datas,
                   gate_closed, dependency,
                   value_vars>>

\* process_f32: the early-out
EarlyOut ==
    /\ pc = "loop"
    /\ pass_samples > 0
    /\ is_idle
    /\ out' = silence(pass_samples)
    /\ position' = position + pass_samples
    /\ calls' = updater_call(process_f32_call(
                    calls, chunk_position(frame_offset, position), pass_samples))
    /\ last_step' = "early_out"
    /\ UNCHANGED <<pending_note_events, rb_head, audio_vars, param_vars, avx, pc,
                   frame_offset, num_samples, samples, sample_index,
                   interpolator_samples, voice_datas,
                   ghost_vars>>

\* process_f32: extract_voice_data is entered
StartPass ==
    /\ pc = "loop"
    /\ pass_samples > 0
    /\ ~is_idle
    /\ pc' = "events"
    /\ samples' = pass_samples
    /\ sample_index' = 0
    /\ interpolator_samples' = advance_one_sample(0)
    /\ voice_datas' = <<>>
    /\ out' = <<>>
    /\ last_step' = "-"
    /\ UNCHANGED <<pending_note_events, rb_head, audio_vars, param_vars, avx,
                   frame_offset, num_samples, position, calls, ghost_vars>>

\* process_events_for_sample: the head event is due, popped and applied
ProcessEvent ==
    /\ pc = "events"
    /\ head_is_due(pending_note_events,
                   chunk_position(frame_offset, position) + sample_index)
    /\ LET a == process_note_event(AudioState, Head(pending_note_events).event)
       IN  /\ voices' = a.voices
           /\ pressed_keys' = a.pressed_keys
           /\ sustain_pedal_on' = a.sustain_pedal_on
           /\ global_pitch_bend' = a.global_pitch_bend
           /\ bpm' = a.bpm
           /\ last_call' = a.last_call
    /\ pending_note_events' = Tail(pending_note_events)
    /\ rb_head' = (rb_head + 1) % RbCapacity
    /\ applied' = Append(applied, Head(pending_note_events).delta_frames)
    /\ gate_closed' = gate_closed_after_event(voices', gate_closed)
    /\ ended_keys' = {}
    /\ last_step' = "event"
    /\ UNCHANGED <<dependency, value_vars>>
    /\ UNCHANGED <<monophonic_voice, clap_ended_notes, param_vars, avx,
                   call_vars, pass_vars, queue_in_order>>

\* extract_voice_data: no head event is due; the voices advance, their data is
\* cached, ended voices leave the table; after the last frame gen_audio runs.
\* A voice that needs a cache entry past the last one makes the index
\* expression panic and the call never returns.
FinishFrame(wave_left, wave_right) ==
    /\ pc = "events"
    /\ ~head_is_due(pending_note_events,
                    chunk_position(frame_offset, position) + sample_index)
    /\ LET advanced == [i \in 1 .. Len(voice_iterator) |->
                           advance_voice(voice_iterator[i], sustain_pedal_on)]
           vds == extract_voice_datas(voice_datas, advanced, sample_index, samples)
           poly == [i \in 1 .. Len(voices) |->
                       deactivate_if_envelopes_ended(advanced[i])]
           mono == IF monophonic_voice.active
                   THEN [deactivate_if_envelopes_ended(advanced[Len(advanced)])
                            EXCEPT !.key = monophonic_voice.key]
                   ELSE monophonic_voice
           ended == ended_clap_notes(advanced, monophonic_voice,
                                     chunk_position(frame_offset, position) + sample_index)
           closed == gate_closed_after_frame(voices, sustain_pedal_on, gate_closed)
       IN  IF cache_index_out_of_bounds(vds)
           THEN /\ pc' = "panic"
                /\ last_step' = "panic"
                /\ UNCHANGED <<voices, monophonic_voice, clap_ended_notes,
                               sample_index,
                               interpolator_samples, voice_datas,
                               position, calls, out, samples, last_call, gate_closed,
                               ended_keys>>
           ELSE /\ voices' = retain_active(poly)
                /\ monophonic_voice' = mono
                /\ clap_ended_notes' =
                      push_ended_notes(clap_ended_notes, ended, poly, mono)
                /\ IF sample_index + 1 < samples
                   THEN /\ sample_index' = sample_index + 1
                        /\ interpolator_samples' =
                              advance_one_sample(interpolator_samples)
                        /\ voice_datas' = vds
                        /\ UNCHANGED <<pc, position, calls, out, samples>>
                        /\ last_step' = "-"
                   ELSE /\ out' = gen_audio(vds, samples, wave_left, wave_right)
                        /\ position' = position + samples
                        /\ calls' = updater_call(process_f32_call(
                                        calls, chunk_position(frame_offset, position),
                                        samples))
                        /\ pc' = "loop"
                        /\ sample_index' = 0
                        /\ interpolator_samples' = 0
                        /\ samples' = 0
                        /\ voice_datas' = <<>>
                        /\ last_step' = "gen_audio"
                /\ last_call' = NoCall
                /\ gate_closed' = [k \in VoiceKeys(voices') |-> closed[k]]
                /\ ended_keys' = {k \in VoiceKeys(voices) \ VoiceKeys(voices') :
                                     closed[k].frames > 0 /\ closed[k].after_decay}
    /\ UNCHANGED <<pending_note_events, rb_head, pressed_keys, sustain_pedal_on,
                   global_pitch_bend, bpm,
                   param_vars, avx, frame_offset, num_samples, queue_in_order,
                   applied, dependency, value_vars>>

\* an operator whose envelope durations are shorter than those of the other
\* operators: between two calls its envelope is one sample ahead of theirs
AdvanceEnvelopeAhead(i, o) ==
    /\ pc = "idle"
    /\ i \in 1 .. Len(voices)
    /\ ~is_ended(voices[i].operators[o])
    /\ voices' = [voices EXCEPT ![i].operators[o] =
                     EnvelopeAdvance(@, voices[i].key_pressed \/ sustain_pedal_on)]
    /\ last_step' = "-"
    /\ UNCHANGED <<pending_note_events, rb_head, monophonic_voice,
                   clap_ended_notes, pressed_keys,
                   sustain_pedal_on, global_pitch_bend, bpm, last_call,
                   param_vars, avx, call_vars, pass_vars, ghost_vars>>

\* a CLAP note-on applied in monophonic mode: the monophonic voice takes the
\* key and the note id and is pressed, every other pressed voice is released
PressMonophonicVoice(key, clap_note_id) ==
    /\ pc = "idle"
    /\ monophonic_voice' =
          [press_key([monophonic_voice EXCEPT !.key = key])
              EXCEPT !.clap_note_id = clap_note_id]
    /\ voices' = mono_release_others(voices, key)
    /\ last_step' = "-"
    /\ UNCHANGED <<pending_note_events, rb_head, clap_ended_notes, pressed_keys,
                   sustain_pedal_on, global_pitch_bend, bpm, last_call,
                   param_vars, avx, call_vars, pass_vars, ghost_vars>>

\* a CLAP note-off applied in monophonic mode with no other key pressed
ReleaseMonophonicVoice ==
    /\ pc = "idle"
    /\ monophonic_voice.key_pressed
    /\ monophonic_voice' = release_key(monophonic_voice)
    /\ last_step' = "-"
    /\ UNCHANGED <<pending_note_events, rb_head, voices, clap_ended_notes,
                   pressed_keys, sustain_pedal_on, global_pitch_bend, bpm,
                   last_call, param_vars, avx, call_vars, pass_vars, ghost_vars>>

\* the plugin's process callback drains the ring of ended notes into the
\* host's output events after the samples are generated
DrainEndedNotes ==
    /\ pc = "idle"
    /\ clap_ended_notes # <<>>
    /\ clap_ended_notes' = <<>>
    /\ last_step' = "-"
    /\ UNCHANGED <<pending_note_events, rb_head, voices, monophonic_voice,
                   pressed_keys, sustain_pedal_on, global_pitch_bend, bpm,
                   last_call, param_vars, avx, call_vars, pass_vars, ghost_vars>>

\* gen_audio: one voice data is analysed and generated
GenVoice(operators) ==
    /\ pc = "idle"
    /\ LET operator_generate_audio == run_operator_dependency_analysis(operators)
       IN  dependency' =
              [analysed |-> TRUE, operators |-> operators,
               operator_generate_audio |-> operator_generate_audio,
               voice_mix_out |-> voice_mix_of(operators, operator_generate_audio)]
    /\ last_step' = "-"
    /\ UNCHANGED <<pending_note_events, rb_head, audio_vars, param_vars, avx,
                   call_vars, pass_vars, queue_in_order, applied, gate_closed,
                   ended_keys, value_vars>>

\* InterpolatableValue::set_value on the operator value
SetValue(value) ==
    /\ set_value_calls < MaxSetValueCalls
    /\ operator_value' = set_value(operator_value, value)
    /\ set_value_calls' = set_value_calls + 1
    /\ UNCHANGED <<thread_vars, bank_vars, pure_vars>>

\* InterpolatableValue::get_value on the operator value
GetValue(time) ==
    /\ operator_value' = get_value(operator_value, time).self
    /\ UNCHANGED <<thread_vars, set_value_calls, bank_vars, pure_vars>>

\* PatchBank::set_patch_index
SetPatchIndex(index) ==
    /\ bank_calls < MaxBankCalls
    /\ patch_bank' = set_patch_index(patch_bank, index)
    /\ bank_call' = [method |-> "set_patch_index", index |-> index]
    /\ bank_calls' = bank_calls + 1
    /\ UNCHANGED <<thread_vars, operator_value, set_value_calls, export_vars, gui_vars, pure_vars>>

\* PatchBank::have_patches_changed
HavePatchesChanged ==
    /\ bank_calls < MaxBankCalls
    /\ patch_bank' = have_patches_changed(patch_bank).self
    /\ bank_call' = [method |-> "have_patches_changed", index |-> 0,
                     result |-> have_patches_changed(patch_bank).result]
    /\ bank_calls' = bank_calls + 1
    /\ UNCHANGED <<thread_vars, operator_value, set_value_calls, export_vars, gui_vars, pure_vars>>

\* PatchBank::get_parameter_value
GetParameterValue(index) ==
    /\ bank_calls < MaxBankCalls
    /\ bank_call' = [method |-> "get_parameter_value", index |-> index,
                     result |-> get_parameter_value(patch_bank, index)]
    /\ bank_calls' = bank_calls + 1
    /\ UNCHANGED <<thread_vars, operator_value, set_value_calls, export_vars, gui_vars, patch_bank, pure_vars>>

\* PatchBank::set_parameter_from_gui
SetParameterFromGui(index, value) ==
    /\ bank_calls < MaxBankCalls
    /\ patch_bank' = set_parameter_from_gui(patch_bank, index, value)
    /\ bank_call' = [method |-> "set_parameter_from_gui", index |-> index]
    /\ bank_calls' = bank_calls + 1
    /\ UNCHANGED <<thread_vars, operator_value, set_value_calls, export_vars, gui_vars, pure_vars>>

\* PatchBank::set_parameter_from_host
SetParameterFromHost(index, value) ==
    /\ bank_calls < MaxBankCalls
    /\ patch_bank' = set_parameter_from_host(patch_bank, index, value)
    /\ bank_call' = [method |-> "set_parameter_from_host", index |-> index]
    /\ bank_calls' = bank_calls + 1
    /\ UNCHANGED <<thread_vars, operator_value, set_value_calls, export_vars, gui_vars, pure_vars>>

\* PatchBank::set_parameter_text_from_host
SetParameterTextFromHost(index, text) ==
    /\ bank_calls < MaxBankCalls
    /\ patch_bank' = set_parameter_text_from_host(patch_bank, index, text).self
    /\ bank_call' = [method |-> "set_parameter_text_from_host", index |-> index,
                     result |-> set_parameter_text_from_host(patch_bank, index, text).result]
    /\ bank_calls' = bank_calls + 1
    /\ UNCHANGED <<thread_vars, operator_value, set_value_calls, export_vars, gui_vars, pure_vars>>

\* PatchBank::set_parameter_text_from_gui
SetParameterTextFromGui(index, text) ==
    /\ bank_calls < MaxBankCalls
    /\ patch_bank' = set_parameter_text_from_gui(patch_bank, index, text).self
    /\ bank_call' = [method |-> "set_parameter_text_from_gui", index |-> index,
                     result |-> set_parameter_text_from_gui(patch_bank, index, text).result]
    /\ bank_calls' = bank_calls + 1
    /\ UNCHANGED <<thread_vars, operator_value, set_value_calls, export_vars, gui_vars, pure_vars>>

\* PatchBank::export_fxb_bytes, the host keeping the bytes
ExportFxbBytes ==
    /\ bank_calls < MaxBankCalls
    /\ exported_bytes' = export_fxb_bytes(patch_bank)
    /\ exported_bank' = patch_bank
    /\ bank_call' = [method |-> "export_fxb_bytes", index |-> 0]
    /\ bank_calls' = bank_calls + 1
    /\ UNCHANGED <<thread_vars, operator_value, set_value_calls, patch_bank, gui_vars,
                   pure_vars>>

\* PatchBank::import_bank_from_bytes with the bytes the host kept
ImportBankFromBytes ==
    /\ bank_calls < MaxBankCalls
    /\ patch_bank' = import_bank_from_bytes(patch_bank, exported_bytes).self
    /\ bank_call' = [method |-> "import_bank_from_bytes", index |-> 0,
                     result |-> import_bank_from_bytes(patch_bank, exported_bytes).result]
    /\ bank_calls' = bank_calls + 1
    /\ UNCHANGED <<thread_vars, operator_value, set_value_calls, export_vars, gui_vars, pure_vars>>

\* PatchBank::new_from_bytes with the bytes the host kept: an import into a
\* new bank. The call panics on bytes that do not import
NewFromBytes ==
    /\ bank_calls < MaxBankCalls
    /\ import_bank_from_bytes(PatchBankNew, exported_bytes).result
    /\ patch_bank' = import_bank_from_bytes(PatchBankNew, exported_bytes).self
    /\ bank_call' = [method |-> "new_from_bytes", index |-> 0,
                     result |-> import_bank_from_bytes(PatchBankNew, exported_bytes).result]
    /\ bank_calls' = bank_calls + 1
    /\ UNCHANGED <<thread_vars, operator_value, set_value_calls, export_vars, gui_vars, pure_vars>>

\* a patch value f of a parameter of some kind comes in
TakePatchValue(kind, f) ==
    /\ conversion.stage = "-"
    /\ conversion' = [NoConversion EXCEPT !.stage = "patch", !.kind = kind, !.patch = f]
    /\ UNCHANGED <<thread_vars, operator_value, set_value_calls, bank_vars, panned_operator, voice_gen>>

\* P::new_from_patch(f)
NewFromPatch ==
    /\ conversion.stage = "patch"
    /\ conversion' = [conversion EXCEPT
                         !.stage = "value",
                         !.value = new_from_patch(conversion.kind, conversion.patch)]
    /\ UNCHANGED <<thread_vars, operator_value, set_value_calls, bank_vars, panned_operator, voice_gen>>

\* P::new_from_patch(f).to_patch()
ToPatch ==
    /\ conversion.stage = "value"
    /\ conversion' = [conversion EXCEPT
                         !.stage = "back",
                         !.back = to_patch(conversion.kind, conversion.value)]
    /\ UNCHANGED <<thread_vars, operator_value, set_value_calls, bank_vars, panned_operator, voice_gen>>

\* P::new_from_patch(P::new_from_patch(f).to_patch())
NewFromPatchAgain ==
    /\ conversion.stage = "back"
    /\ conversion' = [conversion EXCEPT
                         !.stage = "again",
                         !.again = new_from_patch(conversion.kind, conversion.back)]
    /\ UNCHANGED <<thread_vars, operator_value, set_value_calls, bank_vars, panned_operator, voice_gen>>

\* gen_audio: a voice data enters the loop over its operators
BeginVoice(operators) ==
    /\ voice_gen.operator_index = NUM_OPERATORS
    /\ voice_gen' =
          [operator_index |-> NUM_OPERATORS - 1,
           operators |-> operators,
           operator_generate_audio |-> run_operator_dependency_analysis(operators),
           voice_modulation_inputs |-> [t \in Operators |-> 0],
           voice_mix_out |-> 0,
           evaluated |-> <<>>,
           inputs_read |-> [t \in Operators |-> 0],
           mod_outs |-> [t \in Operators |-> 0]]
    /\ UNCHANGED <<thread_vars, operator_value, set_value_calls, bank_vars, conversion,
                   panned_operator>>

\* gen_audio: one turn of the loop over the operators
GenOperator ==
    /\ voice_gen.operator_index \in Operators
    /\ LET operator_index == voice_gen.operator_index
           o == gen_voice_operator_audio(voice_gen.operators[operator_index],
                                         voice_gen.voice_modulation_inputs[operator_index])
       IN  IF ~voice_gen.operator_generate_audio[operator_index]
           THEN voice_gen' = [voice_gen EXCEPT !.operator_index = operator_index - 1]
           ELSE voice_gen' =
                  [voice_gen EXCEPT
                     !.operator_index = operator_index - 1,
                     !.voice_mix_out = @ + o.mix_out,
                     !.voice_modulation_inputs =
                         add_to_targets(voice_gen.operators, operator_index, @, o.mod_out),
                     !.evaluated = Append(@, operator_index),
                     !.inputs_read[operator_index] =
                         voice_gen.voice_modulation_inputs[operator_index],
                     !.mod_outs[operator_index] = o.mod_out]
    /\ UNCHANGED <<thread_vars, operator_value, set_value_calls, bank_vars, conversion,
                   panned_operator>>

\* gen_voice_operator_audio is called for an operator with a panning and a
\* sample per frame of the pass
TakeOperatorSample(width, panning, sample) ==
    /\ panned_operator.stage = "-"
    /\ panned_operator' = [NoPannedOperator EXCEPT
                              !.stage = "sample",
                              !.width = width,
                              !.panning = panning,
                              !.sample = sample]
    /\ UNCHANGED <<thread_vars, operator_value, set_value_calls, bank_vars, conversion, voice_gen>>

\* gen_voice_operator_audio: the mix of the channels by the panning
MixChannels ==
    /\ panned_operator.stage = "sample"
    /\ panned_operator' = [panned_operator EXCEPT
                              !.stage = "mixed",
                              !.mono_mix_factor = mono_mix_factor(panned_operator.panning),
                              !.mixed = mix_channels(panned_operator.panning,
                                                     panned_operator.sample)]
    /\ UNCHANGED <<thread_vars, operator_value, set_value_calls, bank_vars, conversion, voice_gen>>

\* gen_voice_operator_audio: the pan factor of mod_out
LinearPanning ==
    /\ panned_operator.stage = "mixed"
    /\ panned_operator' = [panned_operator EXCEPT
                              !.stage = "panned",
                              !.pan_factor = linear_panning_factor(panned_operator.panning)]
    /\ UNCHANGED <<thread_vars, operator_value, set_value_calls, bank_vars, conversion, voice_gen>>

-----------------------------------------------------------------------------
(* Inputs *)

VoiceModes == {"Polyphonic", "Monophonic"}
PortamentoModes == {"Off", "Auto", "Always"}
Waves == {0 - 1, 1}
Deltas == 0 .. MaxDelta

\* the key and pedal messages over a set of keys
KeyEvents(keys) ==
    {MidiNoteOn(k) : k \in keys} \cup {MidiNoteOff(k) : k \in keys}
        \cup {MidiEvent(144, k, 0) : k \in keys}
        \cup {MidiSustain(127), MidiSustain(64), MidiSustain(63), MidiSustain(0)}

\* The voice table under key and pedal events stamped with the first frame, one
\* event delivered per call, in both voice modes.
Keys == {60, 62}

Next ==
    \/ \E e \in KeyEvents(Keys) :
          /\ pending_note_events = <<>>
          /\ EnqueueNoteEvent(NoteEvent(0, e))
    \/ \E vm \in VoiceModes, pm \in PortamentoModes : SetParameterFromPatch(vm, pm)
    \/ \E n \in 1 .. MaxFrames : BeginProcess(0, n)
    \/ Return
    \/ EarlyOut
    \/ StartPass
    \/ ProcessEvent
    \/ \E w \in Waves : FinishFrame(w, 0 - w)

Spec == Init /\ [][Next]_vars

\* The polyphonic voice table over three keys.
PolyKeys == {60, 62, 64}

InitPoly == Init /\ avx = FALSE

NextPoly ==
    \/ \E e \in KeyEvents(PolyKeys) :
          /\ pending_note_events = <<>>
          /\ EnqueueNoteEvent(NoteEvent(0, e))
    \/ \E pm \in PortamentoModes : SetParameterFromPatch("Polyphonic", pm)
    \/ BeginProcess(0, 1)
    \/ Return
    \/ EarlyOut
    \/ StartPass
    \/ ProcessEvent
    \/ FinishFrame(1, 0 - 1)

SpecPoly == InitPoly /\ [][NextPoly]_vars

\* The pending-event ring under timed pedal events, sorted or not.
QueueEvents == {NoteEvent(d, MidiSustain(127)) : d \in Deltas}

NextQueue ==
    \/ \E e \in QueueEvents : EnqueueNoteEvent(e)
    \/ \E e1, e2 \in QueueEvents : EnqueueNoteEvents(<<e1, e2>>)
    \/ SortNoteEvents
    \/ \E offset \in 0 .. MaxFrameOffset, n \in 0 .. MaxFrames : BeginProcess(offset, n)
    \/ Return
    \/ EarlyOut
    \/ StartPass
    \/ ProcessEvent
    \/ FinishFrame(1, 0 - 1)

SpecQueue == Init /\ [][NextQueue]_vars

\* Both voice modes over three keys, without the pedal.
NoteEvents(keys) == {MidiNoteOn(k) : k \in keys} \cup {MidiNoteOff(k) : k \in keys}

NextMono ==
    \/ \E e \in NoteEvents(PolyKeys) :
          /\ pending_note_events = <<>>
          /\ EnqueueNoteEvent(NoteEvent(0, e))
    \/ \E vm \in VoiceModes, pm \in PortamentoModes : SetParameterFromPatch(vm, pm)
    \/ BeginProcess(0, 1)
    \/ Return
    \/ EarlyOut
    \/ StartPass
    \/ ProcessEvent
    \/ FinishFrame(1, 0 - 1)

SpecMono == InitPoly /\ [][NextMono]_vars

\* Raw MIDI messages of every status nibble on two channels, and the CLAP
\* events, in polyphonic mode.
MidiChannels == {5, 15}
MidiData1 == {60, 64}
MidiData2 == {0, 63, 64}

MidiMessages ==
    {MidiEvent(nibble * 16 + channel, data1, data2) :
        nibble \in (0 .. 15) \ {14}, channel \in MidiChannels,
        data1 \in MidiData1, data2 \in MidiData2}
    \cup {MidiEvent(14 * 16 + channel, 0, 64) : channel \in MidiChannels}
    \cup {MidiEvent(14 * 16 + channel, 60, 63) : channel \in MidiChannels}

ClapEvents ==
    {ClapNoteOn(60, <<1, 2>>, 7), ClapNotePressure(60, <<1, 2>>), ClapNoteOff(60),
     ClapBpm(140)}

NextMidi ==
    \/ \E e \in MidiMessages \cup ClapEvents :
          /\ pending_note_events = <<>>
          /\ EnqueueNoteEvent(NoteEvent(0, e))
    \/ BeginProcess(0, 1)
    \/ Return
    \/ EarlyOut
    \/ StartPass
    \/ ProcessEvent
    \/ FinishFrame(1, 0 - 1)

SpecMidi == InitPoly /\ [][NextMidi]_vars

\* One pitch-bend message of any lsb and msb, delivered to the initial state.
MidiDataBytes == 0 .. MIDI_DATA_MAX

NextBend ==
    \/ /\ pc = "idle"
       /\ pending_note_events = <<>>
       /\ global_pitch_bend = 0
       /\ \E lsb, msb \in MidiDataBytes :
             EnqueueNoteEvent(NoteEvent(0, MidiEvent(224, lsb, msb)))
    \/ BeginProcess(0, 1)
    \/ Return
    \/ EarlyOut
    \/ StartPass
    \/ ProcessEvent
    \/ FinishFrame(1, 0 - 1)

SpecBend == InitPoly /\ [][NextBend]_vars

-----------------------------------------------------------------------------
(* Properties *)

Abs(x) == IF x < 0 THEN 0 - x ELSE x

\* C1: a process_f32 call that finds the event queue empty, no polyphonic voice
\* and the monophonic voice inactive writes exactly 0.0 to every left and right
\* sample of its chunk.
C1_IdleCallWritesSilence ==
    [][(/\ pc = "loop"
        /\ position' > position
        /\ pending_note_events = <<>>
        /\ voices = <<>>
        /\ ~monophonic_voice.active)
       => /\ Len(out') = position' - position
          /\ \A l \in 1 .. Len(out') : out'[l] = <<0, 0>>]_vars

C1_Witness ==
    /\ last_step = "early_out"
    /\ Len(out) = 2
    /\ pending_note_events = <<>>
    /\ voices = <<>>

\* C2 as stated: every sample written by gen_audio has absolute value at most
\* 2.0, that is LIMIT times MASTER_VOLUME_FACTOR.
C2_OutputWithinTwo ==
    last_step = "gen_audio" =>
        \A l \in 1 .. Len(out) :
            /\ Abs(out[l][1]) <= LIMIT * MASTER_VOLUME_FACTOR_NUM
            /\ Abs(out[l][2]) <= LIMIT * MASTER_VOLUME_FACTOR_NUM

\* C2 amended: every sample written by gen_audio has absolute value at most
\* LIMIT = 10.0, the clip coming after the scaling by MASTER_VOLUME_FACTOR.
C2_OutputWithinLimit ==
    last_step = "gen_audio" =>
        \A l \in 1 .. Len(out) :
            /\ Abs(out[l][1]) <= LIMIT * MASTER_VOLUME_FACTOR_DEN
            /\ Abs(out[l][2]) <= LIMIT * MASTER_VOLUME_FACTOR_DEN

\* a written sample is clipped at the lower limit while two voices sound
C2_Witness ==
    /\ last_step = "gen_audio"
    /\ Len(voices) = 2
    /\ \E l \in 1 .. Len(out) : out[l][1] = 0 - LIMIT * MASTER_VOLUME_FACTOR_DEN

\* C3: process_events_for_sample(f) pops and applies an event only when it is
\* the head of the queue and its delta_frames equals f, so events leave in FIFO
\* order and never at another frame; frame f is left only when no head event
\* with delta_frames = f remains.
C3_EventsAppliedAtTheirFrame ==
    [][LET f == frame_offset + position + sample_index
       IN  /\ (pc # "idle" /\ pending_note_events' # pending_note_events) =>
                 /\ pc = "events"
                 /\ pending_note_events # <<>>
                 /\ Head(pending_note_events).delta_frames = f
                 /\ pending_note_events' = Tail(pending_note_events)
                 /\ applied' = Append(applied, f)
                 /\ frame_offset' + position' + sample_index' = f
           /\ (pc = "events" /\ (sample_index' # sample_index \/ pc' # "events")) =>
                 \/ pending_note_events = <<>>
                 \/ Head(pending_note_events).delta_frames # f]_vars

\* two events were applied within one frame while a later one waits
C3_Witness ==
    /\ pc = "events"
    /\ Len(applied) = 2
    /\ applied[1] = applied[2]
    /\ applied[1] = frame_offset + position + sample_index
    /\ pending_note_events # <<>>
    /\ Head(pending_note_events).delta_frames > applied[2]

InCallRange(delta) == frame_offset <= delta /\ delta < frame_offset + num_samples

\* C4 as stated: when a process_buffer call returns, no event with delta_frames
\* in [frame_offset, frame_offset + N) is left pending, and the events applied
\* by the call were applied in delta_frames order.
C4_NoneLeftPending ==
    [][(pc = "loop" /\ pc' = "idle") =>
          /\ \A i \in 1 .. Len(pending_note_events) :
                ~InCallRange(pending_note_events[i].delta_frames)
          /\ \A i \in 1 .. Len(applied) - 1 : applied[i] <= applied[i + 1]]_vars

\* C4 amended: the same, for a call that found the queue in non-decreasing
\* delta_frames order with no event stamped before frame_offset.
C4_NoneLeftPendingWhenOrdered ==
    [][(pc = "loop" /\ pc' = "idle" /\ queue_in_order) =>
          /\ \A i \in 1 .. Len(pending_note_events) :
                ~InCallRange(pending_note_events[i].delta_frames)
          /\ \A i \in 1 .. Len(applied) - 1 : applied[i] <= applied[i + 1]]_vars

\* an ordered call is about to return having applied events of two frames,
\* an event beyond the buffer still waiting
C4_Witness ==
    /\ pc = "loop"
    /\ num_samples - position = 0
    /\ queue_in_order
    /\ Len(applied) = 2
    /\ applied[1] < applied[2]
    /\ pending_note_events # <<>>

\* C5: after sort_note_events the queue, read head to tail, is in non-decreasing
\* delta_frames order, wherever the occupied region lies in the ring.
C5_SortedAfterSort ==
    last_step = "sort" => IsSortedByDelta(pending_note_events)

IsPrefix(s, t) == Len(s) <= Len(t) /\ SubSeq(t, 1, Len(s)) = s

\* C6: the queue never holds more events than the ring's capacity; an enqueue
\* keeps the queued events and their order, and on a full queue changes nothing.
C6_QueueBounded ==
    [][/\ Len(pending_note_events') <= RbCapacity
       /\ (pc = "idle" /\ pc' = "idle" /\ last_step' # "sort") =>
             /\ IsPrefix(pending_note_events, pending_note_events')
             /\ Len(pending_note_events) = RbCapacity =>
                   pending_note_events' = pending_note_events
       /\ last_step' = "enqueue_dropped" =>
             Len(pending_note_events') = RbCapacity]_vars

\* an enqueue on a full queue was dropped
C6_Witness ==
    /\ last_step = "enqueue_dropped"
    /\ Len(pending_note_events) = RbCapacity
    /\ rb_head > 0

\* the step that pops and applies the head event
AppliesHeadEvent ==
    /\ pc = "events"
    /\ pending_note_events # <<>>
    /\ pending_note_events' = Tail(pending_note_events)

HeadEvent == Head(pending_note_events).event
HeadKey == HeadEvent.data[2]

\* a MIDI note-on with non-zero velocity
EventIsKeyOn(e) == e.type = "Midi" /\ e.data[1] \div 16 = 9 /\ e.data[3] # 0

\* a MIDI note-off, or a note-on with velocity 0
EventIsKeyOff(e) ==
    /\ e.type = "Midi"
    /\ \/ e.data[1] \div 16 = 8
       \/ e.data[1] \div 16 = 9 /\ e.data[3] = 0

PolyKeyOnStep ==
    AppliesHeadEvent /\ EventIsKeyOn(HeadEvent) /\ voice_mode = "Polyphonic"

IndexesOfKey(vs, k) == {i \in 1 .. Len(vs) : vs[i].key = k}
WithoutKey(vs, k) == SelectSeq(vs, LAMBDA v : v.key # k)

\* C7: in polyphonic mode, key_on(k) for a key that already has a voice presses
\* that same voice again; the number of voices is unchanged and exactly one
\* voice exists for k.
C7_RepressKeepsOneVoice ==
    [][(PolyKeyOnStep /\ IndexesOfKey(voices, HeadKey) # {}) =>
          /\ Len(voices') = Len(voices)
          /\ Cardinality(IndexesOfKey(voices', HeadKey)) = 1
          /\ \E i \in IndexesOfKey(voices, HeadKey), j \in IndexesOfKey(voices', HeadKey) :
                voices'[j] = press_key(voices[i])]_vars

\* a sounding voice was pressed again: its envelopes rise from their current volume
C7_Witness ==
    /\ pc = "events"
    /\ voice_mode = "Polyphonic"
    /\ last_call.fn = "press_key"
    /\ last_call.found_at > 0
    /\ Len(voices) >= 2
    /\ voices[Len(voices)].key = last_call.key
    /\ voices[Len(voices)].operators[0].start_volume = 1

\* C8: in polyphonic mode, after key_on(k) the voice for k is the last entry of
\* the voice table and the other voices keep their relative order.
C8_PressedVoiceIsLast ==
    [][PolyKeyOnStep =>
          /\ voices' # <<>>
          /\ voices'[Len(voices')].key = HeadKey
          /\ WithoutKey(voices', HeadKey) = WithoutKey(voices, HeadKey)]_vars

\* the voice of the pressed key moved from the front of three to the end
C8_Witness ==
    /\ pc = "events"
    /\ voice_mode = "Polyphonic"
    /\ last_call.fn = "press_key"
    /\ last_call.found_at = 1
    /\ Len(voices) = 3
    /\ voices[3].key = last_call.key

\* the positions of the voices key_on(k) may glide from
GlideCandidates(vs, k, mode) ==
    {i \in 1 .. Len(vs) :
        /\ vs[i].key # k
        /\ \/ mode = "Always"
           \/ mode = "Auto" /\ vs[i].key_pressed}

\* C9: in polyphonic mode the glide source of key_on(k) is none when portamento
\* is Off, the most recently inserted voice with another key and key_pressed
\* when Auto, the most recently inserted voice with another key when Always;
\* without a source press_key gets glide_from = k and no retarget.
C9_GlideSource ==
    [][PolyKeyOnStep =>
          LET candidates == GlideCandidates(voices, HeadKey, portamento_mode)
          IN  /\ last_call'.fn = "press_key"
              /\ last_call'.key = HeadKey
              /\ IF candidates = {}
                 THEN /\ last_call'.initial_key = HeadKey
                      /\ last_call'.target_key = None
                 ELSE /\ \E i \in candidates :
                            /\ \A j \in candidates : j <= i
                            /\ last_call'.initial_key = voices[i].key
                      /\ last_call'.target_key = HeadKey]_vars

\* in Auto mode the glide started from a held voice although a released voice
\* of another key was inserted after it
C9_Witness ==
    /\ pc = "events"
    /\ voice_mode = "Polyphonic"
    /\ portamento_mode = "Auto"
    /\ last_call.fn = "press_key"
    /\ last_call.target_key = last_call.key
    /\ \E i, j \in 1 .. Len(voices) :
          /\ i < j
          /\ voices[i].key = last_call.initial_key
          /\ voices[j].key # last_call.key
          /\ ~voices[j].key_pressed

NoDuplicates(s) == \A i, j \in 1 .. Len(s) : s[i] = s[j] => i = j
WithoutElement(s, k) == SelectSeq(s, LAMBDA x : x # k)

\* C10: pressed_keys starts empty and changes only by key_on(k), which moves k to
\* the end, and key_off(k), which removes k: it holds exactly the keys whose
\* latest event was a key_on, without duplicates, in the order of their latest
\* key_on. The update comes before the voices are touched: a monophonic key_off
\* retargets its voice to the last key of the updated set.
C10_PressedKeys ==
    [][/\ NoDuplicates(pressed_keys')
       /\ IF AppliesHeadEvent /\ EventIsKeyOn(HeadEvent)
          THEN pressed_keys' = Append(WithoutElement(pressed_keys, HeadKey), HeadKey)
          ELSE IF AppliesHeadEvent /\ EventIsKeyOff(HeadEvent)
          THEN /\ pressed_keys' = WithoutElement(pressed_keys, HeadKey)
               /\ last_call'.fn = "change_pitch" =>
                     /\ pressed_keys' # <<>>
                     /\ last_call'.key = pressed_keys'[Len(pressed_keys')]
          ELSE pressed_keys' = pressed_keys]_vars

\* two keys are held, the lower one pressed last, while the pedal is down in
\* monophonic mode
C10_Witness ==
    /\ pc = "events"
    /\ pressed_keys = <<62, 60>>
    /\ last_call.fn = "press_key"
    /\ last_call.key = 60
    /\ voice_mode = "Monophonic"
    /\ sustain_pedal_on

MonoKeyOnStep ==
    AppliesHeadEvent /\ EventIsKeyOn(HeadEvent) /\ voice_mode = "Monophonic"

\* C11: after a monophonic key_on(k) the voice for k is key-pressed and no other
\* voice is, whatever mode the other voices were pressed in.
C11_OnlyPressedVoice ==
    [][MonoKeyOnStep =>
          /\ IndexesOfKey(voices', HeadKey) # {}
          /\ \A i \in 1 .. Len(voices') :
                voices'[i].key_pressed <=> voices'[i].key = HeadKey]_vars

\* a monophonic key_on took over one held voice and released another, which
\* is still in its Sustain stage: both were pressed in polyphonic mode
C11_Witness ==
    /\ pc = "events"
    /\ voice_mode = "Monophonic"
    /\ last_call.fn = "press_key"
    /\ last_call.found_at = 0
    /\ Len(voices) = 2
    /\ voices[2].key = last_call.key
    /\ voices[2].operators[0].start_volume = 1
    /\ ~voices[1].key_pressed
    /\ voices[1].operators[0].stage = "Sustain"

MonoKeyOffStep ==
    AppliesHeadEvent /\ EventIsKeyOff(HeadEvent) /\ voice_mode = "Monophonic"

\* C12: a monophonic key_off(k) of the sounding key, while another key is held,
\* retargets the voice of k to the most recently pressed remaining key g,
\* gliding unless portamento is Off: afterwards the voice that sounded for k is
\* the key-pressed voice of g; with no key left held the voice of k is released.
C12_RetargetOrRelease ==
    [][(/\ MonoKeyOffStep
        /\ IndexesOfKey(voices, HeadKey) # {}
        /\ \A i \in IndexesOfKey(voices, HeadKey) : voices[i].key_pressed)
       => LET sounding == voices[CHOOSE i \in IndexesOfKey(voices, HeadKey) : TRUE]
              remaining == WithoutElement(pressed_keys, HeadKey)
          IN  IF remaining # <<>>
              THEN LET g == remaining[Len(remaining)]
                   IN  /\ \E j \in 1 .. Len(voices') :
                             voices'[j] = [sounding EXCEPT !.key = g]
                       /\ last_call' = [fn |-> "change_pitch", key |-> g,
                                        glide |-> portamento_mode # "Off"]
              ELSE \E j \in 1 .. Len(voices') :
                      voices'[j] = [sounding EXCEPT !.key_pressed = FALSE]]_vars

\* C13: a change of the voice mode parameter leaves the voices, their key_pressed
\* and active flags and envelopes, pressed_keys, the pedal and the queue as they
\* are.
C13_ModeSwitchKeepsVoices ==
    [][voice_mode' # voice_mode =>
          /\ voices' = voices
          /\ monophonic_voice' = monophonic_voice
          /\ pressed_keys' = pressed_keys
          /\ sustain_pedal_on' = sustain_pedal_on
          /\ pending_note_events' = pending_note_events]_vars

\* two voices pressed in polyphonic mode are both still pressed in monophonic
\* mode, where no key_on leaves two pressed voices
C13_Witness ==
    /\ voice_mode = "Monophonic"
    /\ Len(voices) = 2
    /\ voices[1].key_pressed
    /\ voices[2].key_pressed
    /\ pressed_keys = <<60, 62>>

\* the post-state fields that an applied event may write
AppliedTo(a) ==
    /\ voices' = a.voices
    /\ pressed_keys' = a.pressed_keys
    /\ sustain_pedal_on' = a.sustain_pedal_on
    /\ global_pitch_bend' = a.global_pitch_bend
    /\ bpm' = a.bpm
    /\ last_call' = a.last_call

\* C14: a raw MIDI message is decoded by the upper nibble of its status byte,
\* whatever the channel: 0x8 is key_off(key); 0x9 with velocity 0 is
\* key_off(key); 0x9 with velocity v > 0 is key_on(key, v/127); 0xB with
\* controller 64 sets the pedal; 0xE updates the pitch bend; every other
\* message changes nothing.
C14_MidiDecoding ==
    [][(AppliesHeadEvent /\ HeadEvent.type = "Midi") =>
          LET nibble == HeadEvent.data[1] \div 16
              d1 == HeadEvent.data[2]
              d2 == HeadEvent.data[3]
          IN  CASE nibble = 8 -> AppliedTo(key_off(AudioState, d1))
                [] nibble = 9 /\ d2 = 0 -> AppliedTo(key_off(AudioState, d1))
                [] nibble = 9 /\ d2 > 0 ->
                      AppliedTo(key_on(AudioState, d1, <<d2, 127>>, None))
                [] nibble = 11 /\ d1 = 64 ->
                      AppliedTo([AudioState EXCEPT !.sustain_pedal_on = (d2 >= 64)])
                [] nibble = 14 ->
                      AppliedTo([AudioState EXCEPT
                                    !.global_pitch_bend = update_from_midi(d1, d2)])
                [] OTHER ->
                      /\ AppliedTo([AudioState EXCEPT !.last_call = last_call'])
                      /\ last_call'.fn = "none"]_vars

\* messages of channels 5 and 15 have pressed a key with velocity 63/127, put
\* the pedal down and bent the pitch
C14_Witness ==
    /\ pc = "events"
    /\ last_call.fn = "press_key"
    /\ last_call.velocity = <<63, 127>>
    /\ last_call.clap_note_id = None
    /\ sustain_pedal_on
    /\ global_pitch_bend # 0

\* a MIDI message that is not a note-on, note-off, pedal or pitch-bend message,
\* or a CLAP note pressure
EventIsIgnored(e) ==
    \/ /\ e.type = "Midi"
       /\ \/ e.data[1] \div 16 \in (0 .. 7) \cup {10, 12, 13, 15}
          \/ e.data[1] \div 16 = 11 /\ e.data[2] # 64
    \/ e.type = "ClapNotePressure"

\* C15: a MIDI message with an unrecognized status nibble, a control change of a
\* controller other than 64, a MIDI aftertouch and a CLAP note pressure leave
\* voices, pressed_keys, pedal, pitch bend and BPM unchanged and call no Voice
\* method; the event is popped in the frame it is due.
C15_IgnoredEvents ==
    [][(/\ pc = "events"
        /\ pending_note_events # <<>>
        /\ Head(pending_note_events).delta_frames = frame_offset + position + sample_index
        /\ EventIsIgnored(HeadEvent))
       => /\ pending_note_events' = Tail(pending_note_events)
          /\ voices' = voices
          /\ monophonic_voice' = monophonic_voice
          /\ pressed_keys' = pressed_keys
          /\ sustain_pedal_on' = sustain_pedal_on
          /\ global_pitch_bend' = global_pitch_bend
          /\ bpm' = bpm
          /\ last_call'.fn = "none"]_vars

\* a CLAP note pressure for the held key 60 was consumed with pedal, pitch bend
\* and BPM all away from their initial values
C15_Witness ==
    /\ pc = "events"
    /\ pending_note_events = <<>>
    /\ last_call = [fn |-> "none", handler |-> "aftertouch", key |-> 60,
                    velocity |-> <<1, 2>>]
    /\ \E i \in 1 .. Len(voices) : voices[i].key = 60 /\ voices[i].key_pressed
    /\ pressed_keys # <<>>
    /\ sustain_pedal_on
    /\ global_pitch_bend # 0
    /\ bpm # BeatsPerMinuteDefault

\* C16: for lsb, msb in 0..127 and v = (msb << 7) | lsb, update_from_midi sets
\* the factor to (v - 8192)/8191 when v > 8192, within f32 rounding, to
\* (v - 8192)/8192 when v < 8192 and to 0 when v = 8192; the factor lies in
\* [-1, 1]; (0, 64) gives exactly 0, (0, 0) exactly -1, (127, 127) exactly +1.
\* The factor f counts units of 2^-26, and 2^26 = 8191 * 8193 + 1, so that
\* f - (v - 8192) * 2^26 / 8191 = (8191 * (f - 8193 * x) - x) / 8191.
C16_PitchBendFactor ==
    [][(AppliesHeadEvent /\ HeadEvent.type = "Midi" /\ HeadEvent.data[1] \div 16 = 14)
       => LET lsb == HeadEvent.data[2]
              msb == HeadEvent.data[3]
              x == msb * 128 + lsb - 8192
              f == global_pitch_bend'
          IN  /\ 8191 * 8193 + 1 = F32_ONE
              /\ x = 0 => f = 0
              /\ x < 0 => f = x * (F32_ONE \div 8192) /\ F32_ONE % 8192 = 0
              /\ x > 0 => LET d == 8191 * (f - 8193 * x) - x
                          IN  0 - 3 * 8191 <= d /\ d <= 3 * 8191
              /\ 0 - F32_ONE <= f /\ f <= F32_ONE
              /\ (lsb = 0 /\ msb = 64) => f = 0
              /\ (lsb = 0 /\ msb = 0) => f = 0 - F32_ONE
              /\ (lsb = 127 /\ msb = 127) => f = F32_ONE]_vars

\* the message (127, 127) was applied: the factor is exactly +1
C16_Witness ==
    /\ pc = "events"
    /\ last_step = "event"
    /\ global_pitch_bend = F32_ONE

\* the head event is a control change of controller 64
HeadIsSustainPedal ==
    HeadEvent.type = "Midi" /\ HeadEvent.data[1] \div 16 = 11 /\ HeadEvent.data[2] = 64

\* the step of extract_voice_data that advances the envelopes by one sample
AdvancesEnvelopes ==
    /\ pc = "events"
    /\ ~head_is_due(pending_note_events, frame_offset + position + sample_index)

\* C17: sustain_pedal_on is set by a control change 64 to (value >= 64) and
\* changed by no other step; the gate of every operator envelope in a frame is
\* key_pressed or sustain_pedal_on: an envelope enters Release only in a frame
\* where its voice's key is released and the pedal is off, an envelope in Sustain
\* stays there while the key is held or the pedal is on, and enters Release in
\* the first frame where neither is.
C17_SustainPedalGate ==
    [][/\ (AppliesHeadEvent /\ HeadIsSustainPedal)
            => sustain_pedal_on' = (HeadEvent.data[3] >= 64)
       /\ ~(AppliesHeadEvent /\ HeadIsSustainPedal)
            => sustain_pedal_on' = sustain_pedal_on
       /\ \A i \in 1 .. Len(voices), j \in 1 .. Len(voices'), o \in Operators :
             (/\ voices'[j].key = voices[i].key
              /\ voices[i].operators[o].stage # "Release"
              /\ voices'[j].operators[o].stage = "Release")
             => /\ AdvancesEnvelopes
                /\ ~voices[i].key_pressed
                /\ ~sustain_pedal_on
       /\ AdvancesEnvelopes
            => \A i \in 1 .. Len(voices), o \in Operators :
                  voices[i].operators[o].stage = "Sustain"
                  => \E j \in 1 .. Len(voices') :
                        /\ voices'[j].key = voices[i].key
                        /\ voices'[j].operators[o].stage =
                              IF voices[i].key_pressed \/ sustain_pedal_on
                              THEN "Sustain" ELSE "Release"]_vars

\* after a frame, a voice whose key is released is held in Sustain by the pedal
C17_Witness ==
    /\ last_step = "gen_audio"
    /\ sustain_pedal_on
    /\ \E i \in 1 .. Len(voices) :
          /\ ~voices[i].key_pressed
          /\ \A o \in Operators : voices[i].operators[o].stage = "Sustain"

\* no voice of the table has had its gate closed for more than ReleaseSamples
\* frames in a row, counting only gates closed after attack and decay when
\* after_decay_only
EndsWithinRelease(closed, after_decay_only) ==
    \A k \in DOMAIN closed :
        (after_decay_only => closed[k].after_decay)
        => closed[k].frames <= ReleaseSamples

\* the frame that leaves the voice table empty writes 0.0, and so does every
\* frame after it while table and queue stay empty
SilentOnceEnded ==
    /\ (AdvancesEnvelopes /\ last_step' = "gen_audio" /\ voices' = <<>>
           /\ ~monophonic_voice'.active)
        => out'[Len(out')] = <<0, 0>>
    /\ (pc = "loop" /\ voices = <<>> /\ ~monophonic_voice.active
           /\ pending_note_events = <<>> /\ position' > position)
        => /\ out' = [l \in 1 .. pass_samples |-> <<0, 0>>]
           /\ voices' = <<>>

-----------------------------------------------------------------------------
(* Operator dependency analysis over every routing of four operators *)

\* volume, mix_out and mod_out are not negative: off or on
OperatorLevels == {0, 1}

\* operator 0 has neither mod_out nor modulation targets; operator i modulates
\* operators below it
OperatorDatas(i) ==
    [volume : OperatorLevels, mix_out : OperatorLevels,
     mod_out : IF i = 0 THEN {0} ELSE OperatorLevels,
     modulation_targets : SUBSET (0 .. (i - 1))]

VoiceOperatorDatas ==
    {<<a, b, c, d>> : a \in OperatorDatas(0), b \in OperatorDatas(1),
                      c \in OperatorDatas(2), d \in OperatorDatas(3)}

\* each voice data goes through gen_audio on its own
NextDependency ==
    /\ ~dependency.analysed
    /\ \E t \in VoiceOperatorDatas : GenVoice([i \in Operators |-> t[i + 1]])

SpecDependency == InitPoly /\ [][NextDependency]_vars

RECURSIVE AffectsOutput(_, _)
\* operator i reaches the mix: it sounds, and either mixes out or modulates an
\* operator that reaches the mix
AffectsOutput(operators, i) ==
    /\ operators[i].volume > 0
    /\ \/ operators[i].mix_out > 0
       \/ /\ operators[i].mod_out > 0
          /\ \E t \in operators[i].modulation_targets : AffectsOutput(operators, t)

AllGenerated == [i \in Operators |-> TRUE]

\* C19: an operator that run_operator_dependency_analysis marks as not
\* generated contributes nothing to voice_mix_out, directly or through a chain
\* of modulation: every operator that reaches the mix is generated, the mix with
\* the pruned operators skipped equals the mix with all four generated, and
\* generating any single pruned operator as well changes nothing.
C19_PrunedOperatorsAreSilent ==
    dependency.analysed
    => LET operators == dependency.operators
           generated == dependency.operator_generate_audio
       IN  /\ \A i \in Operators : AffectsOutput(operators, i) => generated[i]
           /\ dependency.voice_mix_out = voice_mix_of(operators, AllGenerated)
           /\ \A i \in Operators :
                 ~generated[i]
                 => voice_mix_of(operators, [generated EXCEPT ![i] = TRUE])
                      = dependency.voice_mix_out

\* operator 3 sounds and modulates operator 2, which sounds and modulates
\* operator 0, whose volume is 0: operators 2 and 3 are pruned through the chain,
\* operator 1 mixes out and is generated
C19_Witness ==
    /\ dependency.analysed
    /\ dependency.operators[3] = [volume |-> 1, mix_out |-> 0, mod_out |-> 1,
                                   modulation_targets |-> {2}]
    /\ dependency.operators[2] = [volume |-> 1, mix_out |-> 0, mod_out |-> 1,
                                   modulation_targets |-> {0}]
    /\ dependency.operators[0].volume = 0
    /\ dependency.operator_generate_audio = [i \in Operators |-> i = 1]
    /\ dependency.voice_mix_out = 1

-----------------------------------------------------------------------------
(* The voice-data cache under note-ons for one key byte after the other, each *)
(* key held: 0, 1, ... up to the byte VOICE_DATA_CAPACITY, one call per event *)

NextCache ==
    \/ /\ pending_note_events = <<>>
       /\ Len(voices) <= VOICE_DATA_CAPACITY
       /\ EnqueueNoteEvent(NoteEvent(0, MidiNoteOn(Len(voices))))
    \/ /\ pending_note_events # <<>> \/ voices = <<>>
       /\ BeginProcess(0, 1)
    \/ Return
    \/ EarlyOut
    \/ StartPass
    \/ ProcessEvent
    \/ FinishFrame(1, 0 - 1)

SpecCache == InitPoly /\ [][NextCache]_vars

\* C20: the voice-data entries used in one pass never exceed the 129 of the
\* cache, whatever note events arrive: the index expression of
\* extract_voice_data never panics.
C20_CacheIndexInBounds ==
    /\ Len(voice_datas) <= VOICE_DATA_CAPACITY
    /\ pc # "panic"

-----------------------------------------------------------------------------
(* An interpolated operator value under set_value and get_value calls *)

\* the floating-point numbers nearest to 0, 0.1, 0.7 and 1
InterpolationTargets ==
    {FloatRound(RoundHalfEven(k * FloatOne, 10)) : k \in {0, 1, 7, 10}}

\* NoteTime of a get_value call: that of the last step, or another
NoteTimes == {0, 1}

NextInterpolation ==
    \/ \E value \in InterpolationTargets : SetValue(value)
    \/ \E time \in NoteTimes : GetValue(time)

SpecInterpolation == InitPoly /\ [][NextInterpolation]_vars

\* C21: once the interpolator has made all the steps towards a target that
\* was held, the current value equals the target exactly and further advances
\* leave it unchanged; a set_value mid-way restarts from the current value with
\* step size (target - current) / num_steps and num_steps steps to go.
C21_ConvergesToTarget ==
    [][/\ operator_value'.steps_remaining = 0
            => operator_value'.current_value = operator_value'.target_value
       /\ (operator_value.steps_remaining = 0 /\ set_value_calls' = set_value_calls)
            => operator_value'.current_value = operator_value.current_value
       /\ (set_value_calls' # set_value_calls
             /\ operator_value'.target_value # operator_value.current_value)
            => /\ operator_value'.current_value = operator_value.current_value
               /\ operator_value'.steps_remaining = NUM_STEPS
               /\ operator_value'.step_size =
                     FloatDiv(FloatSub(operator_value'.target_value,
                                       operator_value.current_value), NUM_STEPS)]_vars

-----------------------------------------------------------------------------
(* The patch bank under calls from the GUI and the host *)

\* parameter indices of a call: those of a patch, and the first one past them
ParameterIndexInputs == 0 .. NumParameters
\* patch indices of a call: the second one, the last one, and the first one past them
PatchIndexInputs == {1, NUM_PATCHES - 1, NUM_PATCHES}
\* patch values of a call: -0.5, 0.25, 2.0
ParameterValueInputs == {0 - FloatOne \div 2, FloatOne \div 4, 2 * FloatOne}
\* texts of a call
ParameterTextInputs == {<<" ", "A", "u", "t", "o">>, <<"a", "l", "w", "a", "y", "s", " ">>, <<"o", "n">>}

NextPatchBank ==
    \/ \E index \in PatchIndexInputs : SetPatchIndex(index)
    \/ HavePatchesChanged
    \/ \E index \in ParameterIndexInputs : GetParameterValue(index)
    \/ \E index \in ParameterIndexInputs, value \in ParameterValueInputs :
          SetParameterFromGui(index, value)
    \/ \E index \in ParameterIndexInputs, value \in ParameterValueInputs :
          SetParameterFromHost(index, value)
    \/ \E index \in ParameterIndexInputs, text \in ParameterTextInputs :
          SetParameterTextFromHost(index, text)
    \/ \E index \in ParameterIndexInputs, text \in ParameterTextInputs :
          SetParameterTextFromGui(index, text)
    \/ ExportFxbBytes
    \/ ImportBankFromBytes
    \/ NewFromBytes

SpecPatchBank == InitPoly /\ [][NextPatchBank]_vars

\* the methods that take a parameter index
ParameterMethods ==
    {"get_parameter_value", "set_parameter_from_gui", "set_parameter_from_host",
     "set_parameter_text_from_host", "set_parameter_text_from_gui"}
TextMethods == {"set_parameter_text_from_host", "set_parameter_text_from_gui"}

\* C22: a call with a parameter index out of range, or a text setter whose
\* text does not parse, leaves every stored value and every change flag as it
\* was; the text setters then return false and the getter returns no value.
C22_InvalidInputChangesNothing ==
    [][(bank_call'.method \in ParameterMethods /\ bank_calls' # bank_calls)
         => /\ (bank_call'.index \notin ParameterIndices)
                => /\ patch_bank' = patch_bank
                   /\ bank_call'.method \in TextMethods => bank_call'.result = FALSE
                   /\ bank_call'.method = "get_parameter_value"
                        => bank_call'.result = Nothing
            /\ (bank_call'.method \in TextMethods /\ bank_call'.result = FALSE)
                => patch_bank' = patch_bank]_vars

\* a text setter has returned false for a parameter of the patch, and a
\* getter has returned no value, with values and flags set before
C22_Witness ==
    /\ bank_call.method = "set_parameter_text_from_gui"
    /\ bank_call.index \in ParameterIndices
    /\ bank_call.result = FALSE
    /\ patch_bank.parameter_change_info_gui # {}
    /\ \E i \in ParameterIndices : patch_bank.patches[patch_bank.patch_index][i] # PatchParameterNew

\* C23: whatever set_parameter_from_gui and set_parameter_from_host calls were
\* made, every stored patch value of every patch lies in [0, 1].
C23_StoredValuesNormalized ==
    \A p \in PatchIndices : \A i \in ParameterIndices :
        /\ patch_bank.patches[p][i] >= 0
        /\ patch_bank.patches[p][i] <= FloatOne

\* C24: set_patch_index(i) with i < 128 makes get_patch_index() return i, marks
\* every parameter as changed for the audio side and for the GUI and sets the
\* patches-changed flag; with i >= 128 it leaves the patch index and every
\* change flag as they were.
C24_SetPatchIndex ==
    [][(bank_call'.method = "set_patch_index" /\ bank_calls' # bank_calls)
         => IF bank_call'.index < NUM_PATCHES
            THEN /\ get_patch_index(patch_bank') = bank_call'.index
                 /\ patch_bank'.parameter_change_info_audio = ParameterIndices
                 /\ patch_bank'.parameter_change_info_gui = ParameterIndices
                 /\ patch_bank'.patches_changed
            ELSE /\ get_patch_index(patch_bank') = get_patch_index(patch_bank)
                 /\ patch_bank'.parameter_change_info_audio = patch_bank.parameter_change_info_audio
                 /\ patch_bank'.parameter_change_info_gui = patch_bank.parameter_change_info_gui
                 /\ patch_bank'.patches_changed = patch_bank.patches_changed
                 /\ patch_bank'.envelope_viewports_changed = patch_bank.envelope_viewports_changed]_vars

\* the last patch was selected, the patches-changed flag was read, and a
\* call with an index past the last patch followed
C24_Witness ==
    /\ bank_call.method = "set_patch_index"
    /\ bank_call.index >= NUM_PATCHES
    /\ get_patch_index(patch_bank) = NUM_PATCHES - 1
    /\ patch_bank.parameter_change_info_gui = ParameterIndices
    /\ ~patch_bank.patches_changed

ImportMethods == {"import_bank_from_bytes", "new_from_bytes"}

-----------------------------------------------------------------------------
(* Patch values through new_from_patch and to_patch *)

ParameterKinds == {"GlideMode", "OperatorFrequencyFree"}

\* every floating-point number of [0, 1]
PatchValueInputs ==
    {m * 2^e : m \in 0 .. 2^MantissaBits - 1, e \in 0 .. FractionBits - MantissaBits}
        \cup {FloatOne}

NextConversion ==
    \/ /\ conversion.stage = "-"
       /\ \E kind \in ParameterKinds, f \in PatchValueInputs : TakePatchValue(kind, f)
    \/ NewFromPatch
    \/ ToPatch
    \/ NewFromPatchAgain

SpecConversion == InitPoly /\ [][NextConversion]_vars

\* the patch values of the steps of OPERATOR_FREE_STEPS: k / 12
StepPatchValues ==
    {FloatRoundRatio(k * FloatOne, Len(OPERATOR_FREE_STEPS) - 1) :
        k \in 0 .. Len(OPERATOR_FREE_STEPS) - 1}

\* the distance of two numbers
Distance(x, y) == IF x >= y THEN x - y ELSE y - x

\* the spacing of the floating-point numbers above 1.0
FloatEpsilon == FloatOne \div 2^(MantissaBits - 1)

\* a glide mode is the mode of its own patch value
GlideModeRoundTrip ==
    (conversion.stage = "again" /\ conversion.kind = "GlideMode")
        => conversion.again = conversion.value

-----------------------------------------------------------------------------
(* The panning of one operator sample, in each SIMD backend *)

\* Pd::WIDTH of the fallback and of AVX
PdWidths == {2, 4}

\* the panning of a second frame of the pass: 0.0, 0.25, 1.0
SecondPannings == {0, FloatOne \div 4, FloatOne}

\* stereo samples of a frame: (-1.0, 0.375) and (0.75, 0.75)
StereoSamples == {<<0 - FloatOne, (3 * FloatOne) \div 8>>, <<(3 * FloatOne) \div 4, (3 * FloatOne) \div 4>>}

\* set_value_for_both_channels for each frame of a pass of the width
BothChannels(width, first, second) ==
    [lane \in 1 .. width |-> IF lane <= 2 THEN first ELSE second]

NextPanning ==
    \/ /\ panned_operator.stage = "-"
       /\ \E width \in PdWidths, p \in PatchValueInputs, q \in SecondPannings, s \in StereoSamples :
          /\ width = 2 => q = 0
          /\ TakeOperatorSample(width, BothChannels(width, p, q), [lane \in 1 .. width |-> s[2 - (lane % 2)]])
    \/ MixChannels
    \/ LinearPanning

SpecPanning == InitPoly /\ [][NextPanning]_vars

\* the stereo pairs of a packed double: the lanes of the left channels
LeftLanes(pd) == {lane \in 1 .. Len(pd) : lane % 2 = 1}

\* the (left, right) factors at a panning equal to one of the five of the claim
FactorsAt(pd, panning, p, l, r) ==
    \A lane \in LeftLanes(pd) :
        panning[lane] = p => (pd[lane] = l /\ pd[lane + 1] = r)

\* C27: linear_panning_factor(p) for p in [0, 1] is left = min(2 (1 - p), 1) and
\* right = min(2 p, 1) in every stereo pair, whatever the width of the backend:
\* (1, 0) at 0, (1, 0.5) at 0.25, (1, 1) at 0.5, (0.5, 1) at 0.75, (0, 1) at 1.
C27_LinearPanningFactor ==
    panned_operator.stage = "panned"
        => LET pd == panned_operator.pan_factor
               panning == panned_operator.panning
           IN  /\ Len(pd) = panned_operator.width
               /\ \A lane \in LeftLanes(pd) :
                     /\ pd[lane] = Min(2 * FloatSub(FloatOne, panning[lane]), FloatOne)
                     /\ pd[lane + 1] = Min(2 * panning[lane + 1], FloatOne)
               /\ FactorsAt(pd, panning, 0, FloatOne, 0)
               /\ FactorsAt(pd, panning, FloatOne \div 4, FloatOne, FloatOne \div 2)
               /\ FactorsAt(pd, panning, FloatOne \div 2, FloatOne, FloatOne)
               /\ FactorsAt(pd, panning, (3 * FloatOne) \div 4, FloatOne \div 2, FloatOne)
               /\ FactorsAt(pd, panning, FloatOne, 0, FloatOne)

\* an AVX pass has its first frame panned to 0.75 and its second to 0.25
C27_Witness ==
    /\ panned_operator.stage = "panned"
    /\ panned_operator.width = 4
    /\ panned_operator.panning = BothChannels(4, (3 * FloatOne) \div 4, FloatOne \div 4)
    /\ panned_operator.pan_factor = <<FloatOne \div 2, FloatOne, FloatOne, FloatOne \div 2>>

\* C28: mono_mix_factor(p) for p in [0, 1] is left = max(1 - 2 p, 0) and
\* right = max(2 p - 1, 0): (1, 0) at 0, (0.5, 0) at 0.25, (0, 0) at 0.5,
\* (0, 0.5) at 0.75, (0, 1) at 1; a sample panned to the centre keeps its two
\* channels as they are.
C28_MonoMixFactor ==
    panned_operator.stage \in {"mixed", "panned"}
        => LET pd == panned_operator.mono_mix_factor
               panning == panned_operator.panning
           IN  /\ Len(pd) = panned_operator.width
               /\ \A lane \in LeftLanes(pd) :
                     /\ pd[lane] = Max(FloatSub(FloatOne, 2 * panning[lane]), 0)
                     /\ pd[lane + 1] = Max(FloatSub(2 * panning[lane + 1], FloatOne), 0)
                     /\ panning[lane] = FloatOne \div 2
                          => /\ panned_operator.mixed[lane] = panned_operator.sample[lane]
                             /\ panned_operator.mixed[lane + 1] = panned_operator.sample[lane + 1]
               /\ FactorsAt(pd, panning, 0, FloatOne, 0)
               /\ FactorsAt(pd, panning, FloatOne \div 4, FloatOne \div 2, 0)
               /\ FactorsAt(pd, panning, FloatOne \div 2, 0, 0)
               /\ FactorsAt(pd, panning, (3 * FloatOne) \div 4, 0, FloatOne \div 2)
               /\ FactorsAt(pd, panning, FloatOne, 0, FloatOne)

\* an AVX pass has a stereo sample panned to the centre in its first frame
\* and to the left in its second, where the channels are mixed to mono
C28_Witness ==
    /\ panned_operator.stage = "mixed"
    /\ panned_operator.width = 4
    /\ panned_operator.panning = BothChannels(4, FloatOne \div 2, 0)
    /\ panned_operator.sample[1] # panned_operator.sample[2]
    /\ panned_operator.mixed[1] # panned_operator.mixed[2]
    /\ panned_operator.mixed[3] # panned_operator.sample[3]

-----------------------------------------------------------------------------
(* gen_audio operator by operator, over every routing of four operators *)

NextVoiceGen ==
    \/ /\ voice_gen.operator_index = NUM_OPERATORS
       /\ \E t \in VoiceOperatorDatas : BeginVoice([i \in Operators |-> t[i + 1]])
    \/ GenOperator

SpecVoiceGen == InitPoly /\ [][NextVoiceGen]_vars

RECURSIVE SumOver(_, _)
\* the sum of the values of a function over a set of its arguments
SumOver(values, S) ==
    IF S = {} THEN 0
    ELSE LET x == CHOOSE x \in S : TRUE
         IN  values[x] + SumOver(values, S \ {x})

\* the generated operators above j that have j among their targets
ModulatorsOf(j) ==
    {i \in Operators : /\ i > j
                       /\ voice_gen.operator_generate_audio[i]
                       /\ j \in voice_gen.operators[i].modulation_targets}

\* C29: gen_audio evaluates the operators in the order 3, 2, 1, 0 and adds the
\* mod_out of each to the modulation inputs of its targets, which are below
\* it; so the modulation input an operator j is evaluated with is the sum of
\* the mod_out of every generated operator above j that targets j, and nothing
\* is added to the modulation input of an operator evaluated already.
C29_ModulationOrder ==
    [][(voice_gen.operator_index \in Operators /\ voice_gen' # voice_gen)
         => LET j == voice_gen.operator_index
            IN  /\ voice_gen'.operator_index = j - 1
                /\ \A k \in 1 .. Len(voice_gen'.evaluated) - 1 :
                      voice_gen'.evaluated[k] > voice_gen'.evaluated[k + 1]
                /\ voice_gen.operator_generate_audio[j]
                     => /\ voice_gen'.evaluated = Append(voice_gen.evaluated, j)
                        /\ voice_gen'.inputs_read[j] = SumOver(voice_gen.mod_outs, ModulatorsOf(j))
                /\ \A t \in Operators :
                      t >= j => voice_gen'.voice_modulation_inputs[t]
                                 = voice_gen.voice_modulation_inputs[t]]_vars

\* operators 3, 2 and 1 have been evaluated in that order, operator 1 with
\* the mod_out of both 3 and 2, of which 2 was itself modulated by 3
C29_Witness ==
    /\ voice_gen.operator_index = 0
    /\ voice_gen.evaluated = <<3, 2, 1>>
    /\ voice_gen.operators[3].modulation_targets = {1, 2}
    /\ voice_gen.operators[2].modulation_targets = {1}
    /\ voice_gen.mod_outs[2] > voice_gen.mod_outs[3]
    /\ voice_gen.inputs_read[1] = voice_gen.mod_outs[3] + voice_gen.mod_outs[2]
    /\ voice_gen.inputs_read[1] > 0

-----------------------------------------------------------------------------
(* Passes of one and two frames over two keys: note events stamped with the  *)
(* first or the second frame of a call, queued in the order of their frames  *)

PassKeys == {60, 62}
PassDeltas == {0, 1}

NextPass ==
    \/ \E e \in NoteEvents(PassKeys), d \in PassDeltas :
          /\ Len(pending_note_events) < 2
          /\ \A i \in 1 .. Len(pending_note_events) :
                pending_note_events[i].delta_frames <= d
          /\ EnqueueNoteEvent(NoteEvent(d, e))
    \/ BeginProcess(0, MaxFrames)
    \/ Return
    \/ EarlyOut
    \/ StartPass
    \/ ProcessEvent
    \/ FinishFrame(1, 0 - 1)

SpecPass == Init /\ [][NextPass]_vars

\* the voices of the frame about to be rendered, their envelopes advanced
AdvancedVoices ==
    [i \in 1 .. Len(voice_iterator) |->
        advance_voice(voice_iterator[i], sustain_pedal_on)]

\* the voice data of the pass once the frame about to be rendered is extracted
FrameVoiceDatas ==
    extract_voice_datas(voice_datas, AdvancedVoices, sample_index, samples)

\* C31: in every pass, an envelope-volume lane of a voice-data entry is
\* non-zero only for a frame of this pass in which the entry's voice was
\* advanced with that operator's envelope not ended: the lanes of the frames
\* still to come are zero, the lane of the frame being rendered is non-zero
\* only for an advanced voice whose envelope has not ended, and the lanes of
\* the earlier frames are those written in these frames, zero for a voice
\* that has its entry since this frame only.
C31_EnvelopeVolumeLanes ==
    [][/\ pc = "events"
            => \A i \in 1 .. Len(voice_datas), o \in Operators,
                  f \in sample_index .. samples - 1 :
                  voice_datas[i].envelope_volume[o][f + 1] = 0
       /\ AdvancesEnvelopes
            => \A i \in 1 .. Len(FrameVoiceDatas), o \in Operators,
                  f \in 0 .. samples - 1 :
                  FrameVoiceDatas[i].envelope_volume[o][f + 1] # 0
                  => IF f = sample_index
                     THEN \E j \in 1 .. Len(AdvancedVoices) :
                             /\ AdvancedVoices[j].key = FrameVoiceDatas[i].voice_index
                             /\ ~is_ended(AdvancedVoices[j].operators[o])
                     ELSE /\ f < sample_index
                          /\ i <= Len(voice_datas)
                          /\ voice_datas[i].voice_index = FrameVoiceDatas[i].voice_index
                          /\ voice_datas[i].envelope_volume[o][f + 1] # 0]_vars

\* a pass of two frames whose second frame started a second voice: the first
\* frame carries one voice, the second both
C31_Witness ==
    /\ last_step = "gen_audio"
    /\ Len(out) = 2
    /\ Len(voices) = 2
    /\ out[1][1] = hard_clip(NUM_OPERATORS * MaxOperatorMix)
    /\ out[2][1] = hard_clip(2 * NUM_OPERATORS * MaxOperatorMix)
    /\ out[1][1] < out[2][1]

\* the frame that extract_voice_data is working on
CurrentFrame == frame_offset + position + sample_index

\* the step leaves the frame: its voices were advanced and snapshotted
RendersFrame ==
    /\ pc = "events"
    /\ pc' = "loop" \/ sample_index' # sample_index

\* C32: in every frame f of a pass the parameter interpolators are advanced
\* by one sample before anything else, then the events stamped f are applied,
\* then every voice is advanced and snapshotted: no event is applied and no
\* voice advanced before the advance of the frame, the frame is not rendered
\* while an event stamped f is at the head of the queue, and a key-on stamped f
\* leaves its voice pressed and active in the table before frame f is
\* rendered, with an entry in the voice data of frame f.
C32_FrameOrder ==
    [][/\ pc = "events" => interpolator_samples = sample_index + 1
       /\ AppliesHeadEvent
            => /\ Head(pending_note_events).delta_frames = CurrentFrame
               /\ sample_index' = sample_index /\ pc' = "events"
               /\ voice_datas' = voice_datas
       /\ (AppliesHeadEvent /\ EventIsKeyOn(HeadEvent))
            => \E i \in 1 .. Len(voices') :
                  /\ voices'[i].key = HeadKey
                  /\ voices'[i].key_pressed /\ voices'[i].active
       /\ RendersFrame
            => /\ ~head_is_due(pending_note_events, CurrentFrame)
               /\ \A i \in 1 .. Len(voices) :
                     \E j \in 1 .. Len(FrameVoiceDatas) :
                        /\ FrameVoiceDatas[j].voice_index = voices[i].key
                        /\ \A o \in Operators :
                              voices[i].operators[o].stage = "Attack"
                              => FrameVoiceDatas[j].envelope_volume[o][sample_index + 1] # 0]_vars

\* the second frame of a pass: the interpolators were advanced twice, the
\* key-on stamped with this frame was applied and its voice is in the table,
\* pressed, not yet advanced
C32_Witness ==
    /\ pc = "events"
    /\ sample_index = 1
    /\ interpolator_samples = 2
    /\ last_step = "event"
    /\ applied # <<>> /\ applied[Len(applied)] = CurrentFrame
    /\ voice_datas = <<>>
    /\ \E i \in 1 .. Len(voices) :
          /\ voices[i].key_pressed
          /\ \A o \in Operators :
                voices[i].operators[o] = EnvelopeRestart(EnvelopeNew)

-----------------------------------------------------------------------------
(* Voices whose operators have envelopes of different durations: the          *)
(* envelopes of the first and the last operator of the first voice of the     *)
(* table can run ahead of the others                                          *)

EarlyOperators == {0, NUM_OPERATORS - 1}

NextEnded ==
    \/ \E e \in NoteEvents(PassKeys) :
          /\ pending_note_events = <<>>
          /\ EnqueueNoteEvent(NoteEvent(0, e))
    \/ \E o \in EarlyOperators : AdvanceEnvelopeAhead(1, o)
    \/ BeginProcess(0, 1)
    \/ Return
    \/ EarlyOut
    \/ StartPass
    \/ ProcessEvent
    \/ FinishFrame(1, 0 - 1)

SpecEnded == Init /\ [][NextEnded]_vars

\* C33: a frame deactivates a voice exactly when all four of its operator
\* envelopes are Ended once advanced; the voice has an entry in the voice data
\* of that frame like every other voice of the table; the voices deactivated
\* by the frame are removed from the polyphonic table at its end and the
\* others stay, so the table holds active voices only and is empty exactly
\* when no polyphonic voice is active.
C33_DeactivatedWhenEnded ==
    [][/\ \A i \in 1 .. Len(voices') : voices'[i].active
       /\ RendersFrame
            => \A i \in 1 .. Len(voices) :
                  /\ (\A o \in Operators : is_ended(AdvancedVoices[i].operators[o]))
                        <=> voices[i].key \notin VoiceKeys(voices')
                  /\ \E j \in 1 .. Len(FrameVoiceDatas) :
                        FrameVoiceDatas[j].voice_index = voices[i].key
                  /\ voices[i].key \in VoiceKeys(voices')
                        => MapGet(voices', voices[i].key) = AdvancedVoices[i]]_vars

\* a frame has kept a voice whose first operator has Ended while its second
\* has not
C33_Witness ==
    /\ last_step = "gen_audio"
    /\ Len(voices) = 1
    /\ is_ended(voices[1].operators[0])
    /\ ~is_ended(voices[1].operators[1])

-----------------------------------------------------------------------------
(* CLAP notes with note ids over two keys, in polyphonic mode and on the      *)
(* monophonic voice; the ring of ended notes is drained between two calls     *)

ClapNoteIds == {7, 8}

ClapNoteEvents ==
    {ClapNoteOn(60, <<1, 2>>, 7), ClapNoteOn(62, <<1, 2>>, 8)}
        \cup {ClapNoteOff(k) : k \in PassKeys}

NextClap ==
    \/ \E e \in ClapNoteEvents, d \in PassDeltas :
          /\ pending_note_events = <<>>
          /\ EnqueueNoteEvent(NoteEvent(d, e))
    \/ \E id \in ClapNoteIds : PressMonophonicVoice(60, id)
    \/ ReleaseMonophonicVoice
    \/ DrainEndedNotes
    \/ /\ clap_ended_notes = <<>>
       /\ BeginProcess(0, MaxFrames)
    \/ Return
    \/ EarlyOut
    \/ StartPass
    \/ ProcessEvent
    \/ FinishFrame(1, 0 - 1)

SpecClap == InitPoly /\ [][NextClap]_vars

\* the frame about to be rendered deactivates voice i of the iterator, which
\* has a note id
EndsNote(i) ==
    /\ \A o \in Operators : is_ended(AdvancedVoices[i].operators[o])
    /\ AdvancedVoices[i].clap_note_id # None

\* the voice of the other voice mode is active after the frame with the key
\* and the note id of voice i of the iterator
OtherModeHoldsNote(i) ==
    IF i > Len(voices)
    THEN \E j \in 1 .. Len(voices') :
            /\ voices'[j].key = monophonic_voice.key
            /\ voices'[j].clap_note_id = monophonic_voice.clap_note_id
    ELSE /\ monophonic_voice'.active
         /\ monophonic_voice'.key = voices[i].key
         /\ monophonic_voice'.clap_note_id = voices[i].clap_note_id

\* the note-ended events of the frame about to be rendered, in the order of
\* the voices
NotesEnded ==
    LET is == SelectSeq([i \in 1 .. Len(AdvancedVoices) |-> i],
                        LAMBDA i : EndsNote(i) /\ ~OtherModeHoldsNote(i))
    IN  [n \in 1 .. Len(is) |->
            ClapNoteEnded(IF is[n] > Len(voices) THEN monophonic_voice.key
                          ELSE voices[is[n]].key,
                          AdvancedVoices[is[n]].clap_note_id, CurrentFrame)]

\* the first n elements of a sequence, all of them when it has fewer
Truncated(s, n) == SubSeq(s, 1, Min(Len(s), n))

-----------------------------------------------------------------------------
(* Calls of process_f32_runtime_select on buffers of 0 to MaxBufferFrames     *)
(* frames, with and without AVX, one key; the audio thread runs a call to its *)
(* end                                                                        *)

ChunkKeys == {60}

NextChunks ==
    \/ \E k \in ChunkKeys :
          /\ pending_note_events = <<>>
          /\ EnqueueNoteEvent(NoteEvent(1, MidiNoteOn(k)))
    \/ \E offset \in {0, MaxFrameOffset}, n \in 0 .. MaxBufferFrames :
          BeginProcess(offset, n)
    \/ Return
    \/ EarlyOut
    \/ StartPass
    \/ ProcessEvent
    \/ FinishFrame(1, 0 - 1)

AudioThreadStep == Return \/ EarlyOut \/ StartPass \/ ProcessEvent \/ FinishFrame(1, 0 - 1)

SpecChunks == Init /\ [][NextChunks]_vars /\ WF_vars(AudioThreadStep)

\* the chunks of the running call, in order
Chunks == SelectSeq(calls, LAMBDA c : c.call = "process_f32")

\* frames of the first k chunks
RECURSIVE FramesOf(_, _)
FramesOf(chunks, k) == IF k = 0 THEN 0 ELSE FramesOf(chunks, k - 1) + chunks[k].samples

\* what a step of a call keeps true of its chunks
ChunkStep ==
    /\ pc \in {"loop", "events"}
       => /\ Len(calls) = 2 * Len(Chunks) + 1
          /\ \A i \in 1 .. Len(calls) :
                calls[i].call = IF i % 2 = 1 THEN "updater" ELSE "process_f32"
          /\ \A k \in 1 .. Len(Chunks) :
                LET start == FramesOf(Chunks, k - 1)
                IN  /\ Chunks[k].position = frame_offset + start
                    /\ Chunks[k].samples =
                          IF avx /\ num_samples - start >= 2 THEN 2 ELSE 1
          /\ FramesOf(Chunks, Len(Chunks)) = position
          /\ position <= num_samples
    /\ (pc = "loop" /\ pc' = "idle") => position = num_samples
    /\ (position' # position)
       => \/ pc' = "idle"
          \/ pc = "idle" /\ position' = 0
          \/ position' > position

\* C34: a call on a buffer of N frames comes to its end; until then its
\* calls are updater, process_f32, updater, process_f32, ..., each chunk
\* starts where the one before it ended, the first at 0, is given
\* frame_offset plus that position, and has 2 frames when AVX is there and 2
\* or more frames remain and 1 frame otherwise; the chunks made so far cover
\* the frames before position, and the call returns with position = N after
\* a last call of the updater.
C34_ChunksCoverBuffer ==
    /\ [][ChunkStep]_vars
    /\ (pc = "loop") ~> (pc = "idle")

\* a call on three frames at frame offset 1 with AVX has processed a chunk of
\* two frames at 1 and a chunk of one frame at 3, the updater called before
\* each and once more before the return
C34_Witness ==
    /\ pc = "loop"
    /\ avx
    /\ num_samples = 3
    /\ frame_offset = 1
    /\ calls = <<[call |-> "updater"],
                 [call |-> "process_f32", position |-> 1, samples |-> 2],
                 [call |-> "updater"],
                 [call |-> "process_f32", position |-> 3, samples |-> 1],
                 [call |-> "updater"]>>

-----------------------------------------------------------------------------
(* Setter threads and the audio thread on the change flags of the patch bank, *)
(* one atomic operation per step                                              *)

\* the parameters the setter threads set: the first one and the last one
SyncParameters == {0, NumParameters - 1}
\* the values they set: 0.0, 2.0
SyncValues == {0, 2 * FloatOne}

\* a thread enters set_parameter_from_gui / set_parameter_from_host with a
\* parameter of the patch
BeginSetParameter(from, index, value) ==
    /\ ~setting[from].some
    /\ get_parameter_by_index(patch_bank, index)
    /\ setting' = [setting EXCEPT ![from] = Some([index |-> index, value |-> value, step |-> 1])]
    /\ UNCHANGED <<thread_vars, operator_value, set_value_calls, patch_bank, bank_call,
                   bank_calls, export_vars, widget_vars, draining, audio_seen, poll_due, pure_vars>>

\* the next atomic operation of the call, which returns after its last one
SetParameterStep(from) ==
    /\ setting[from].some
    /\ LET call == setting[from].value
           steps == set_parameter_steps(from)
       IN  /\ patch_bank' = set_parameter_step(patch_bank, from, steps[call.step],
                                               call.index, call.value)
           /\ setting' = [setting EXCEPT ![from] =
                             IF call.step = Len(steps) THEN Nothing
                             ELSE Some([call EXCEPT !.step = @ + 1])]
    /\ UNCHANGED <<thread_vars, operator_value, set_value_calls, bank_call,
                   bank_calls, export_vars, widget_vars, draining, audio_seen, poll_due, pure_vars>>

\* get_changed_parameters_from_audio: the flags are taken and cleared at once;
\* with none set the call returns None
TakeChangedParameters ==
    /\ ~draining.some
    /\ patch_bank.parameter_change_info_audio # {}
    /\ draining' = Some(patch_bank.parameter_change_info_audio)
    /\ patch_bank' = [patch_bank EXCEPT !.parameter_change_info_audio = {}]
    /\ UNCHANGED <<thread_vars, operator_value, set_value_calls, bank_call,
                   bank_calls, export_vars, widget_vars, setting, audio_seen, poll_due, pure_vars>>

\* get_changed_parameters_from_audio: the value of the next taken parameter
\* is read; the call returns after the last one
ReadChangedParameter ==
    /\ draining.some
    /\ LET index == CHOOSE i \in draining.value : \A j \in draining.value : i <= j
       IN  /\ audio_seen' = [audio_seen EXCEPT
                                ![index] = get_parameter_value(patch_bank, index).value]
           /\ draining' = IF draining.value = {index} THEN Nothing
                          ELSE Some(draining.value \ {index})
    /\ UNCHANGED <<thread_vars, operator_value, set_value_calls, patch_bank, bank_call,
                   bank_calls, export_vars, widget_vars, setting, poll_due, pure_vars>>

NextSync ==
    \/ \E from \in SetterThreads, index \in SyncParameters, value \in SyncValues :
          BeginSetParameter(from, index, value)
    \/ \E from \in SetterThreads : SetParameterStep(from)
    \/ TakeChangedParameters
    \/ ReadChangedParameter

SpecSync == InitPoly /\ [][NextSync]_vars

\* no setter call and no drain is running, and no parameter is marked for the
\* audio thread
Quiescent ==
    /\ \A from \in SetterThreads : ~setting[from].some
    /\ ~draining.some
    /\ patch_bank.parameter_change_info_audio = {}

\* a step of a setter call
SetterStep(from) == setting[from].some /\ setting'[from] # setting[from]

\* what a step of a call from the GUI does to the marks
GuiCallMarks ==
    SetterStep("gui")
    => /\ patch_bank'.parameter_change_info_gui = patch_bank.parameter_change_info_gui
       /\ (~setting'["gui"].some)
          => setting["gui"].value.index \in patch_bank'.parameter_change_info_audio

\* what the last step of a call from the host does to the marks
HostCallMarks ==
    (SetterStep("host") /\ ~setting'["host"].some)
    => setting["host"].value.index \in patch_bank'.parameter_change_info_gui

\* C36: when the setter threads and the audio thread are at rest and the
\* audio thread has taken every mark, the value the audio thread got last for
\* each parameter is the value stored in the patch; no step of a call from
\* the GUI changes the marks for the GUI, a call from the GUI returns with its
\* parameter marked for the audio thread, and a call from the host returns
\* with its parameter marked for the GUI.
C36_NoUpdateLost ==
    /\ [](Quiescent => audio_seen = patch_bank.patches[patch_bank.patch_index])
    /\ [][GuiCallMarks /\ HostCallMarks]_vars

\* the host has set the last parameter to 2.0 and the GUI the first one,
\* where 2.0 is stored as 1.0, and the audio thread has got both values
C36_Witness ==
    /\ Quiescent
    /\ audio_seen[NumParameters - 1] = 2 * FloatOne
    /\ audio_seen[0] = FloatOne
    /\ patch_bank.parameter_change_info_gui = {NumParameters - 1}

-----------------------------------------------------------------------------
(* Patch changes and the two polling calls of the GUI                        *)

PollMethods == {"have_patches_changed", "get_viewports_if_changed"}
PatchChangeMethods ==
    {"set_patch_index", "set_patch_name", "import_bank_from_bytes",
     "clear_current_patch", "clear_bank"}

\* the bank after a patch change by the method
patch_change(self, method, index) ==
    CASE method = "set_patch_index" -> set_patch_index(self, index)
      [] method = "set_patch_name" -> set_patch_name(self)
      [] method = "import_bank_from_bytes" ->
           import_bank_from_bytes(self, export_fxb_bytes(self)).self
      [] method = "clear_current_patch" -> clear_current_patch(self)
      [] method = "clear_bank" -> clear_bank(self)

\* one of the patch changing methods is called
PatchChange(method, index) ==
    /\ bank_calls < MaxBankCalls
    /\ patch_bank' = patch_change(patch_bank, method, index)
    /\ bank_call' = [method |-> method, index |-> index]
    /\ bank_calls' = bank_calls + 1
    /\ poll_due' = PollMethods
    /\ UNCHANGED <<thread_vars, operator_value, set_value_calls, export_vars, widget_vars, setting,
                   draining, audio_seen, pure_vars>>

\* GuiSyncHandle::have_patches_changed
PollPatchesChanged ==
    /\ bank_calls < MaxBankCalls
    /\ patch_bank' = have_patches_changed(patch_bank).self
    /\ bank_call' = [method |-> "have_patches_changed", index |-> 0,
                     told |-> have_patches_changed(patch_bank).result]
    /\ bank_calls' = bank_calls + 1
    /\ poll_due' = poll_due \ {"have_patches_changed"}
    /\ UNCHANGED <<thread_vars, operator_value, set_value_calls, export_vars, widget_vars, setting,
                   draining, audio_seen, pure_vars>>

\* GuiSyncHandle::get_viewports_if_changed
PollViewports ==
    /\ bank_calls < MaxBankCalls
    /\ patch_bank' = get_viewports_if_changed(patch_bank).self
    /\ bank_call' = [method |-> "get_viewports_if_changed", index |-> 0,
                     told |-> get_viewports_if_changed(patch_bank).result.some]
    /\ bank_calls' = bank_calls + 1
    /\ poll_due' = poll_due \ {"get_viewports_if_changed"}
    /\ UNCHANGED <<thread_vars, operator_value, set_value_calls, export_vars, widget_vars, setting,
                   draining, audio_seen, pure_vars>>

NextPoll ==
    \/ \E method \in PatchChangeMethods, index \in {1, NUM_PATCHES - 1} :
          PatchChange(method, index)
    \/ \E index \in ParameterIndices, value \in ParameterValueInputs :
          SetParameterFromGui(index, value)
    \/ PollPatchesChanged
    \/ PollViewports

SpecPoll == InitPoly /\ [][NextPoll]_vars

\* C37: a polling call of the GUI tells of a change (true, Some) exactly when
\* it is the first call of its kind since the last patch change, whichever of
\* the two kinds was called first.
C37_EachPollToldOnce ==
    [][(bank_calls' # bank_calls /\ bank_call'.method \in PollMethods)
         => bank_call'.told = (bank_call'.method \in poll_due)]_vars

-----------------------------------------------------------------------------
(* Mouse and keyboard events on one knob                                      *)

\* cursor positions: on the knob, 3 and 100 pixels below, the last one off it
CursorPositions ==
    {[y |-> 0, over_knob |-> TRUE], [y |-> 3, over_knob |-> TRUE],
     [y |-> 100, over_knob |-> FALSE], [y |-> 0 - 150, over_knob |-> FALSE]}
KnobEvents ==
    {[type |-> "CursorMoved", position |-> p] : p \in CursorPositions}
    \cup {[type |-> "ButtonPressed"], [type |-> "ButtonReleased"],
          [type |-> "CursorLeft"]}
    \cup {[type |-> "Keyboard", shift |-> s] : s \in BOOLEAN}
\* values the application gives the knob: 0.0, 0.6, 2.0
KnobValues == {0, 6000, 2 * KnobOne}

\* the knob handles an event
KnobUpdate(event) ==
    /\ knob' = update(knob, event, now).self
    /\ knob_message' = update(knob, event, now).message
    /\ knob_editing' = CASE knob_message'.type = "Begin" -> TRUE
                          [] knob_message'.type = "End" -> FALSE
                          [] OTHER -> knob_editing
    /\ UNCHANGED <<thread_vars, operator_value, set_value_calls, patch_bank, bank_call,
                   bank_calls, export_vars, setting, draining, audio_seen, poll_due,
                   now, host_queue, pure_vars>>

\* Knob::set_value, called by the application
KnobSetValue(value) ==
    /\ knob' = [knob EXCEPT !.value = value]
    /\ knob_message' = NoMessage
    /\ UNCHANGED <<thread_vars, operator_value, set_value_calls, patch_bank, bank_call,
                   bank_calls, export_vars, setting, draining, audio_seen, poll_due,
                   knob_editing, now, host_queue, pure_vars>>

\* time passes
Tick ==
    /\ now < MaxTicks
    /\ now' = now + 1
    /\ knob_message' = NoMessage
    /\ UNCHANGED <<thread_vars, operator_value, set_value_calls, patch_bank, bank_call,
                   bank_calls, export_vars, setting, draining, audio_seen, poll_due,
                   knob, knob_editing, host_queue, pure_vars>>

NextKnob ==
    \/ \E event \in KnobEvents : KnobUpdate(event)
    \/ \E value \in KnobValues : KnobSetValue(value)
    \/ Tick

SpecKnob == InitPoly /\ [][NextKnob]_vars

\* what the message of a step says of the knob before and after it
KnobProtocol ==
    LET message == knob_message'
    IN  /\ message.type = "Begin"
           => ~knob.is_dragging /\ ~knob_editing /\ knob'.is_dragging
        /\ message.type \in {"SetValue", "End"} => knob.is_dragging /\ knob_editing
        /\ message.type = "End" => ~knob'.is_dragging
        /\ message.type = "SetValue" => message.value >= 0 /\ message.value <= KnobOne
        /\ message.type = "Immediate"
           => /\ message.value = knob.reset_value
              /\ is_double_click(knob, now)
              /\ ~knob.is_dragging /\ ~knob'.is_dragging
        /\ (message.event = "ButtonPressed" /\ ~knob.is_dragging /\ is_double_click(knob, now))
           => message.type = "Immediate"

\* C38: Begin is emitted only when the knob is not dragging and no edit is
\* open, SetValue and End only while it is dragging with an edit open, so
\* that Begin and End alternate and an edit is open exactly while the knob
\* is dragging; a press that is a double click emits Immediate with the
\* reset value and no Begin; every SetValue carries a value in [0, 1].
C38_KnobEditProtocol ==
    /\ [](knob_editing = knob.is_dragging)
    /\ [][KnobProtocol]_vars

\* a drag from a knob value of 2.0 has emitted SetValue with 1.0
C38_Witness ==
    /\ knob_message.type = "SetValue"
    /\ knob_message.value = KnobOne
    /\ knob.value = 2 * KnobOne
    /\ knob.previous_click.some

-----------------------------------------------------------------------------
(* The CLAP GUI handle and the queue of events to the host                    *)

\* GuiSyncHandle::set_parameter_from_text
SetParameterFromText(index, text) ==
    /\ patch_bank' = set_parameter_from_text(patch_bank, host_queue, index, text).self
    /\ host_queue' = set_parameter_from_text(patch_bank, host_queue, index, text).queue
    /\ bank_call' = [method |-> "set_parameter_from_text", index |-> index,
                     result |-> set_parameter_from_text(patch_bank, host_queue, index, text).result]
    /\ UNCHANGED <<thread_vars, operator_value, set_value_calls, bank_calls, export_vars,
                   setting, draining, audio_seen, poll_due, knob_vars, pure_vars>>

\* GuiSyncHandle::begin_edit
BeginEdit(index) ==
    /\ host_queue' = send_event(host_queue, StartAutomating(index))
    /\ bank_call' = [method |-> "begin_edit", index |-> index]
    /\ UNCHANGED <<thread_vars, operator_value, set_value_calls, patch_bank, bank_calls,
                   export_vars, setting, draining, audio_seen, poll_due, knob_vars,
                   pure_vars>>

\* GuiSyncHandle::end_edit
EndEdit(index) ==
    /\ host_queue' = send_event(host_queue, EndAutomating(index))
    /\ bank_call' = [method |-> "end_edit", index |-> index]
    /\ UNCHANGED <<thread_vars, operator_value, set_value_calls, patch_bank, bank_calls,
                   export_vars, setting, draining, audio_seen, poll_due, knob_vars,
                   pure_vars>>

\* the plugin takes the oldest event and hands it to the host
TakeEventToHost ==
    /\ host_queue # <<>>
    /\ host_queue' = Tail(host_queue)
    /\ bank_call' = NoBankCall
    /\ UNCHANGED <<thread_vars, operator_value, set_value_calls, patch_bank, bank_calls,
                   export_vars, setting, draining, audio_seen, poll_due, knob_vars,
                   pure_vars>>

NextHost ==
    \/ \E index \in ParameterIndexInputs, text \in ParameterTextInputs :
          SetParameterFromText(index, text)
    \/ \E index \in ParameterIndices : BeginEdit(index)
    \/ \E index \in ParameterIndices : EndEdit(index)
    \/ TakeEventToHost

SpecHost == InitPoly /\ [][NextHost]_vars

\* the three events of a text edit of the parameter that was set last
TextEditEvents ==
    <<StartAutomating(bank_call'.index),
      Automate(bank_call'.index, bank_call'.result.value),
      EndAutomating(bank_call'.index)>>

\* C39: a set_parameter_from_text call that returns a value has put
\* StartAutomating, Automate with that value and EndAutomating at the end of
\* the queue, in this order, or none of them; one that returns None has left
\* the queue and every stored value and mark as they were.
C39_AllEventsOrNone ==
    [][bank_call'.method = "set_parameter_from_text"
         => IF bank_call'.result.some
            THEN \/ host_queue' = host_queue \o TextEditEvents
                 \/ host_queue' = host_queue
            ELSE host_queue' = host_queue /\ patch_bank' = patch_bank]_vars

-----------------------------------------------------------------------------
(* Glide mode values formatted, typed again in another case and with spaces  *)
(* around, and parsed                                                         *)

GlideModes == {PORTAMENTO_MODE_STEPS[i] : i \in 1 .. Len(PORTAMENTO_MODE_STEPS)}
\* texts that are no formatted glide mode
OtherTexts ==
    {<<>>, <<" ">>, <<"o">>, <<"o", "n", "e">>, <<"a", "l", "w", "a", "y", "s">>,
     <<"O", " ", "N">>, <<"g", "l", "i", "d", "e">>}
\* the longest formatted glide mode
LongestFormatted == 4

\* the text with the characters at the positions in lowercase
lowercase_at(text, positions) ==
    [i \in 1 .. Len(text) |->
        IF i \in positions THEN to_lowercase(<<text[i]>>)[1] ELSE text[i]]

\* the text between spaces
padded(text, leading, trailing) ==
    [i \in 1 .. leading |-> " "] \o text \o [i \in 1 .. trailing |-> " "]

\* a glide mode comes in
TakeGlideMode(mode) ==
    /\ conversion.stage = "-"
    /\ conversion' = [stage |-> "mode", mode |-> mode]
    /\ UNCHANGED <<thread_vars, operator_value, set_value_calls, bank_vars, panned_operator, voice_gen>>

\* GlideModeValue(mode).get_formatted()
GetFormatted ==
    /\ conversion.stage = "mode"
    /\ conversion' = [stage |-> "text", mode |-> conversion.mode,
                      text |-> GlideModeValue_get_formatted(conversion.mode)]
    /\ UNCHANGED <<thread_vars, operator_value, set_value_calls, bank_vars, panned_operator, voice_gen>>

\* the formatted text is typed in another case and with spaces around
Retype(positions, leading, trailing) ==
    /\ conversion.stage = "text"
    /\ conversion.mode \in GlideModes
    /\ conversion.text = GlideModeValue_get_formatted(conversion.mode)
    /\ conversion' = [conversion EXCEPT
                         !.text = padded(lowercase_at(@, positions), leading, trailing)]
    /\ UNCHANGED <<thread_vars, operator_value, set_value_calls, bank_vars, panned_operator, voice_gen>>

\* another text comes in
TakeText(text) ==
    /\ conversion.stage = "-"
    /\ conversion' = [stage |-> "text", mode |-> "-", text |-> text]
    /\ UNCHANGED <<thread_vars, operator_value, set_value_calls, bank_vars, panned_operator, voice_gen>>

\* GlideModeValue::new_from_text(text)
NewFromText ==
    /\ conversion.stage = "text"
    /\ conversion' = [stage |-> "parsed", mode |-> conversion.mode,
                      text |-> conversion.text,
                      parsed |-> GlideModeValue_new_from_text(conversion.text)]
    /\ UNCHANGED <<thread_vars, operator_value, set_value_calls, bank_vars, panned_operator, voice_gen>>

NextGlideMode ==
    \/ \E mode \in GlideModes : TakeGlideMode(mode)
    \/ GetFormatted
    \/ \E positions \in SUBSET (1 .. LongestFormatted), leading, trailing \in 0 .. 1 :
          Retype(positions, leading, trailing)
    \/ \E text \in OtherTexts : TakeText(text)
    \/ NewFromText

SpecGlideMode == InitPoly /\ [][NextGlideMode]_vars

\* C40: the text a glide mode is formatted to, in any case and with spaces
\* around, parses to that glide mode, and a text that is no formatted glide
\* mode parses to nothing.
C40_FormattedTextParsesBack ==
    conversion.stage = "parsed"
    => conversion.parsed = IF conversion.mode \in GlideModes THEN Some(conversion.mode)
                           ELSE Nothing

====
